---- MODULE Spec2Model ----
(***************************************************************************)
(* A model of pkg/cloudprovider/aws/aws.go: the volume attach and detach   *)
(* paths with the per-instance device cache, the TCP load balancer         *)
(* lifecycle (create, update, delete, lookup), and the functions of their  *)
(* arguments alone (construction, volume names, node name resolution).     *)
(* Strings the code slices or tests by prefix (device names, volume        *)
(* names, zones, load balancer names) are sequences of one-character       *)
(* strings.                                                                *)
(***************************************************************************)
EXTENDS Integers, Sequences, FiniteSets, TLC

VARIABLES
    \* ---- provider and instance handles (volume path) ----
    selfAWSInstance,  \* AWSCloud.selfAWSInstance: FALSE = nil, TRUE = created
    provMutex,        \* AWSCloud.mutex, <<>> = free, <<t>> = held by t
    mapped,           \* per handle: awsInstance.deviceMappings # nil
    devMap,           \* per handle: awsInstance.deviceMappings (device -> volume id)
    mutex,            \* per handle: awsInstance.mutex, <<>> = free, <<t>> = held by t
    \* ---- the cloud, volume side ----
    bdmBase,          \* block device mappings the instance had before any call
    volAtt,           \* per volume: its single attachment [state, inst, dev]
    \* ---- one AttachDisk call per thread ----
    pc,               \* where the thread's AttachDisk or DetachDisk call stands
    h,                \* the awsInstance handle getAwsInstance returned
    instAwsID,        \* awsInstance.awsID of that handle
    diskAwsID,        \* disk.awsID
    mountDevice, alreadyAttached,   \* results of assignMountDevice
    attempt,          \* waitForAttachmentStatus: attempt
    req,              \* the AttachVolume requests this call has submitted
    callArgs,         \* the operation and the arguments of the call
    describes,        \* how many times waitForAttachmentStatus has described the volume
    detachReq,        \* the DetachVolume requests this call has submitted, with the replies
    ret,              \* what the call returns: [err, dev]
    \* ---- provider, load balancer side ----
    elbClients,       \* AWSCloud.elbClients: the regions that have a client
    \* ---- the cloud, load balancer side ----
    vpcs,             \* the VPCs tagged Name=kubernetes-vpc
    subnets,          \* the subnets of the cluster VPC
    lbs,              \* the load balancers
    groups,           \* the security groups
    \* ---- one load balancer call per thread ----
    lbpc,             \* where the thread's load balancer call stands
    cr,               \* its arguments and locals
    calls,            \* the mutating cloud calls it has issued, in order
    lbRet,            \* what the call returns: [err, status]
    prev,             \* the call that returned last: its arguments and result
    \* ---- functions of their arguments alone ----
    input,            \* the function applied and its arguments
    output            \* what it returned, [done |-> FALSE] before it is applied

volVars == <<selfAWSInstance, mapped, devMap, mutex, bdmBase, volAtt,
             pc, h, instAwsID, diskAwsID, mountDevice, alreadyAttached, attempt,
             req, ret, callArgs, describes, detachReq>>

lbVars == <<elbClients, vpcs, subnets, lbs, groups, lbpc, cr, calls, lbRet, prev>>

pureVars == <<input, output>>

provVars == <<provMutex>>

vars == <<volVars, lbVars, pureVars, provVars>>

----------------------------------------------------------------------------
(* Bounds *)

\* the polls waitForAttachmentStatus makes before it gives up, in place of its 60
PollBudget == 1

Threads == {1, 2}

----------------------------------------------------------------------------
(* Strings as character sequences *)

EmptyStr == <<>>

HasPrefix(s, p) == Len(s) >= Len(p) /\ SubSeq(s, 1, Len(p)) = p

Contains(s, c) == \E i \in 1..Len(s) : s[i] = c

\* index of the first occurrence of c in s at or after position from, 0 if none
RECURSIVE IndexFrom(_, _, _)
IndexFrom(s, c, from) ==
    IF from > Len(s) THEN 0
    ELSE IF s[from] = c THEN from
    ELSE IndexFrom(s, c, from + 1)

\* index of the last occurrence of c in s, 0 if none
LastIndex(s, c) ==
    IF Contains(s, c) THEN CHOOSE i \in 1..Len(s) : s[i] = c /\ \A j \in (i + 1)..Len(s) : s[j] # c
    ELSE 0

\* strings.ToLower on the upper-case letters the model writes protocol names and
\* URL schemes with
toLowerChar(c) ==
    CASE c = "T" -> "t" [] c = "C" -> "c" [] c = "P" -> "p"
      [] c = "U" -> "u" [] c = "D" -> "d"
      [] c = "A" -> "a" [] c = "W" -> "w" [] c = "S" -> "s" [] OTHER -> c

ToLower(s) == [i \in 1..Len(s) |-> toLowerChar(s[i])]

DevSdPrefix == <<"/", "d", "e", "v", "/", "s", "d">>
DevXvdPrefix == <<"/", "d", "e", "v", "/", "x", "v", "d">>
VolPrefix == <<"v", "o", "l", "-">>

DeviceLetters == <<"f", "g", "h", "i", "j", "k", "l", "m", "n", "o", "p">>

\* awsInstanceType.getEBSMountDevices: /dev/sdf .. /dev/sdp in order
getEBSMountDevices == [i \in 1..Len(DeviceLetters) |-> DevSdPrefix \o <<DeviceLetters[i]>>]

SdDev(c) == DevSdPrefix \o <<c>>

----------------------------------------------------------------------------
(* Volume names *)

\* the letters, and the other characters a URL scheme may hold after its first
Letters ==
    {"a", "b", "c", "d", "e", "f", "g", "h", "i", "j", "k", "l", "m", "n", "o", "p", "q",
     "r", "s", "t", "u", "v", "w", "x", "y", "z",
     "A", "B", "C", "D", "E", "F", "G", "H", "I", "J", "K", "L", "M", "N", "O", "P", "Q",
     "R", "S", "T", "U", "V", "W", "X", "Y", "Z"}

\* url.split: s around the first c, which goes with neither part when cutc, else
\* with the second
split(s, c, cutc) ==
    LET i == IndexFrom(s, c, 1)
    IN  IF i = 0 THEN <<s, EmptyStr>>
        ELSE <<SubSeq(s, 1, i - 1), SubSeq(s, IF cutc THEN i + 1 ELSE i, Len(s))>>

\* url.getscheme: the scheme is the letters, digits, +, - and . before the first colon
RECURSIVE getscheme(_, _)
getscheme(rawurl, i) ==
    IF i > Len(rawurl) THEN [err |-> FALSE, scheme |-> EmptyStr, rest |-> rawurl]
    ELSE IF rawurl[i] \in Letters THEN getscheme(rawurl, i + 1)
    ELSE IF rawurl[i] \in {"0", "1", "2", "3", "4", "5", "6", "7", "8", "9", "+", "-", "."}
    THEN IF i = 1 THEN [err |-> FALSE, scheme |-> EmptyStr, rest |-> rawurl]
         ELSE getscheme(rawurl, i + 1)
    ELSE IF rawurl[i] = ":"
    THEN IF i = 1 THEN [err |-> TRUE, scheme |-> EmptyStr, rest |-> EmptyStr]
         ELSE [err |-> FALSE, scheme |-> SubSeq(rawurl, 1, i - 1),
               rest |-> SubSeq(rawurl, i + 1, Len(rawurl))]
    ELSE [err |-> FALSE, scheme |-> EmptyStr, rest |-> rawurl]

\* url.Parse on names without %, and without : or [ in the authority: the fragment is
\* cut at the first #, the scheme is lowered, the query is cut at the first ?, a rest
\* that does not start with / is opaque, the authority runs from // to the next /,
\* and the host is what follows its last @
urlParse(name) ==
    LET u == split(name, "#", TRUE)[1]
        gs == getscheme(u, 1)
        scheme == ToLower(gs.scheme)
        rest == split(gs.rest, "?", TRUE)[1]
        hasAuth == /\ scheme # EmptyStr \/ ~HasPrefix(rest, <<"/", "/", "/">>)
                   /\ HasPrefix(rest, <<"/", "/">>)
        parts == split(SubSeq(rest, 3, Len(rest)), "/", FALSE)
        authority == parts[1]
        host == SubSeq(authority, LastIndex(authority, "@") + 1, Len(authority))
    IN  IF gs.err THEN [err |-> TRUE, Scheme |-> EmptyStr, Host |-> EmptyStr, Path |-> EmptyStr]
        ELSE IF ~HasPrefix(rest, <<"/">>) /\ scheme # EmptyStr
        THEN [err |-> FALSE, Scheme |-> scheme, Host |-> EmptyStr, Path |-> EmptyStr]
        ELSE IF hasAuth
        THEN [err |-> FALSE, Scheme |-> scheme, Host |-> host, Path |-> parts[2]]
        ELSE [err |-> FALSE, Scheme |-> scheme, Host |-> EmptyStr, Path |-> rest]

NoDisk == [err |-> TRUE, awsID |-> EmptyStr, az |-> EmptyStr]

\* a parse that keeps the leading slash of the path
newAWSDisk_keepSlash(name) ==
    LET url == urlParse(name)
        id == url.Path
    IN  IF url.err \/ url.Scheme # <<"a", "w", "s">> THEN NoDisk
        ELSE IF Contains(id, "/") \/ ~HasPrefix(id, VolPrefix) THEN NoDisk
        ELSE IF url.Host = EmptyStr THEN NoDisk
        ELSE [err |-> FALSE, awsID |-> id, az |-> url.Host]

\* newAWSDisk: the parsed disk, or err = TRUE
newAWSDisk(name) ==
    LET url == urlParse(name)
        awsID0 == url.Path
        id == IF Len(awsID0) > 1 /\ awsID0[1] = "/" THEN Tail(awsID0) ELSE awsID0
    IN  IF url.err THEN NoDisk
        ELSE IF url.Scheme # <<"a", "w", "s">> THEN NoDisk
        ELSE IF Contains(id, "/") \/ ~HasPrefix(id, VolPrefix) THEN NoDisk
        ELSE IF url.Host = EmptyStr THEN NoDisk
        ELSE [err |-> FALSE, awsID |-> id, az |-> url.Host]

\* CreateVolume, lines 1271-1274: the name of the volume EC2 created; a field the
\* response lacks reads as ""
volumeNameOf(az, awsID) == <<"a", "w", "s", ":", "/", "/">> \o az \o <<"/">> \o awsID

VolA == VolPrefix \o <<"a">>
VolB == VolPrefix \o <<"b">>
TestVolumes == {VolA, VolB}

NamePrefix == <<"a", "w", "s", ":", "/", "/", "a", "z", "/">>

\* the diskName arguments the model passes to AttachDisk
DiskNames == { NamePrefix \o VolA,
               NamePrefix \o VolB,
               <<"a", "w", "s", ":", "/", "/", "a", "z", "/", "/">> \o VolA }

----------------------------------------------------------------------------
(* The cloud: instances and volume attachments *)

\* the instances EC2 describes; i-1 is the instance the provider runs on
Instances ==
    { [InstanceID |-> "i-1", PrivateDNSName |-> "node1", State |-> "running"],
      [InstanceID |-> "i-2", PrivateDNSName |-> "node2", State |-> "pending"],
      [InstanceID |-> "i-3", PrivateDNSName |-> "node3", State |-> "terminated"],
      [InstanceID |-> "i-4", PrivateDNSName |-> "twin", State |-> "running"],
      [InstanceID |-> "i-5", PrivateDNSName |-> "twin", State |-> "running"] }

SelfInstanceID == "i-1"

\* the instanceName arguments the model passes to AttachDisk
InstanceNames == {"", "node1", "node3"}

\* a check that counts a stopped instance as alive
isAlive_stopped(instance) == instance.State \in {"pending", "running", "stopped"}

\* isAlive; a nil State is written "nil"
isAlive(instance) ==
    CASE instance.State \in {"shutting-down", "terminated", "stopping", "stopped"} -> FALSE
      [] instance.State \in {"pending", "running"} -> TRUE
      [] OTHER -> FALSE

\* getInstanceByDnsName, lines 609-630: what it makes of the instances EC2 listed
matchAmong(instances, name) ==
    LET matchingInstances == {i \in instances : isAlive(i) /\ i.PrivateDNSName = name}
    IN  IF matchingInstances = {} THEN [err |-> "NotFound", InstanceID |-> ""]
        ELSE IF Cardinality(matchingInstances) > 1 THEN [err |-> "Ambiguous", InstanceID |-> ""]
        ELSE [err |-> "", InstanceID |-> (CHOOSE i \in matchingInstances : TRUE).InstanceID]

\* getInstanceByDnsName, given that the remote listing succeeded: EC2 lists the
\* instances of the private-dns-name
getInstanceByDnsName(name) ==
    matchAmong({i \in Instances : i.PrivateDNSName = name}, name)

Filler(i) == VolPrefix \o <<"x", DeviceLetters[i]>>

\* devices /dev/sdf.. of the first n letters, each holding its own pre-existing volume
FilledUpTo(n) ==
    [d \in {getEBSMountDevices[i] : i \in 1..n} |->
        Filler(CHOOSE i \in 1..n : getEBSMountDevices[i] = d)]

NoAttachment == [state |-> "detached", inst |-> "", dev |-> EmptyStr]

\* ec2.Instance.BlockDeviceMappings of an instance, as device -> volume id
BlockDeviceMappings(instanceId) ==
    LET here == {v \in TestVolumes : volAtt[v].state # "detached" /\ volAtt[v].inst = instanceId}
        base == IF instanceId = SelfInstanceID THEN bdmBase ELSE <<>>
    IN  [d \in DOMAIN base \cup {volAtt[v].dev : v \in here} |->
            IF \E v \in here : volAtt[v].dev = d
            THEN CHOOSE v \in here : volAtt[v].dev = d
            ELSE base[d]]

\* ec2.Volume.Attachments of a volume
Attachments(v) == IF volAtt[v].state = "detached" THEN <<>> ELSE <<volAtt[v]>>

\* EC2 accepts an attach of a detached volume at a named device that is free on the instance
CloudCanAttach(v, instanceId, device) ==
    /\ volAtt[v].state = "detached"
    /\ device # EmptyStr
    /\ device \notin DOMAIN BlockDeviceMappings(instanceId)

----------------------------------------------------------------------------
(* Instance handles *)

SelfH == <<"self", 0>>
PrivH(t) == <<"named", t>>
Handles == {SelfH} \cup {PrivH(t) : t \in Threads}

EmptyMap == <<>>

\* a lookup that never finds the volume
findAssigned_never(deviceMappings, volumeID) == {}

\* assignMountDevice, lines 973-979: the devices the cache maps to volumeID
findAssigned(deviceMappings, volumeID) ==
    {d \in DOMAIN deviceMappings : deviceMappings[d] = volumeID}

\* assignMountDevice, lines 981-990: the first valid device the cache does not hold, "" if none
RECURSIVE firstFreeFrom(_, _)
firstFreeFrom(deviceMappings, i) ==
    IF i > Len(getEBSMountDevices) THEN EmptyStr
    ELSE IF getEBSMountDevices[i] \notin DOMAIN deviceMappings THEN getEBSMountDevices[i]
    ELSE firstFreeFrom(deviceMappings, i + 1)

\* a scan that keeps going after the first free device and so ends with the last one
chooseDevice_last(deviceMappings) ==
    LET free == {i \in DOMAIN getEBSMountDevices : getEBSMountDevices[i] \notin DOMAIN deviceMappings}
    IN  IF free = {} THEN EmptyStr
        ELSE getEBSMountDevices[CHOOSE i \in free : \A j \in free : j <= i]

chooseDevice(deviceMappings) == firstFreeFrom(deviceMappings, 1)

\* deviceMappings[chosen] = volumeID
withMapping(deviceMappings, device, volumeID) ==
    [d \in DOMAIN deviceMappings \cup {device} |->
        IF d = device THEN volumeID ELSE deviceMappings[d]]

\* a release that forgets the delete
releaseMountDevice_keep(deviceMappings, volumeID, device) == deviceMappings

\* a release that erases the device whatever volume holds it
releaseMountDevice_any(deviceMappings, volumeID, device) ==
    [d \in DOMAIN deviceMappings \ {device} |-> deviceMappings[d]]

\* releaseMountDevice: the cache afterwards
releaseMountDevice(deviceMappings, volumeID, device) ==
    IF device \notin DOMAIN deviceMappings THEN deviceMappings
    ELSE IF volumeID # deviceMappings[device] THEN deviceMappings
    ELSE [d \in DOMAIN deviceMappings \ {device} |-> deviceMappings[d]]

\* AttachDisk, lines 1220-1224: the in-guest device name
hostDevice(device) ==
    IF HasPrefix(device, DevSdPrefix)
    THEN DevXvdPrefix \o SubSeq(device, 8, Len(device))
    ELSE device

\* waitForAttachmentStatus, lines 1090-1104: the status read from one describe
attachmentStatus(attachments) ==
    IF Len(attachments) = 0 THEN "detached" ELSE attachments[Len(attachments)].state

----------------------------------------------------------------------------
(* AttachDisk *)

NoRet == [err |-> "", dev |-> EmptyStr]

NoCallArgs == [op |-> "", instanceName |-> "", diskName |-> EmptyStr, readOnly |-> FALSE]
Failed(e) == [err |-> e, dev |-> EmptyStr]

\* the cloud states a behaviour starts from: the instance's block devices and the
\* attachment of each volume the calls name
InitialClouds ==
    { [base |-> EmptyMap, att |-> [v \in TestVolumes |-> NoAttachment]],
      [base |-> EmptyMap,
       att |-> [v \in TestVolumes |->
                  IF v = VolB
                  THEN [state |-> "attached", inst |-> SelfInstanceID, dev |-> SdDev("g")]
                  ELSE NoAttachment]],
      [base |-> FilledUpTo(Len(DeviceLetters) - 1), att |-> [v \in TestVolumes |-> NoAttachment]] }

\* the volume side at rest, for behaviours of the load balancer operations
InitVolQuiet ==
    /\ selfAWSInstance = FALSE
    /\ provMutex = <<>>
    /\ mapped = [x \in Handles |-> FALSE]
    /\ devMap = [x \in Handles |-> EmptyMap]
    /\ mutex = [x \in Handles |-> <<>>]
    /\ bdmBase = EmptyMap /\ volAtt = [v \in TestVolumes |-> NoAttachment]
    /\ pc = [t \in Threads |-> "idle"]
    /\ h = [t \in Threads |-> SelfH]
    /\ instAwsID = [t \in Threads |-> ""]
    /\ diskAwsID = [t \in Threads |-> EmptyStr]
    /\ mountDevice = [t \in Threads |-> EmptyStr]
    /\ alreadyAttached = [t \in Threads |-> FALSE]
    /\ attempt = [t \in Threads |-> 0]
    /\ req = [t \in Threads |-> <<>>]
    /\ ret = [t \in Threads |-> NoRet]
    /\ callArgs = [t \in Threads |-> NoCallArgs]
    /\ describes = [t \in Threads |-> 0]
    /\ detachReq = [t \in Threads |-> <<>>]

InitVolCloud ==
    /\ selfAWSInstance = FALSE
    /\ provMutex = <<>>
    /\ mapped = [x \in Handles |-> FALSE]
    /\ devMap = [x \in Handles |-> EmptyMap]
    /\ mutex = [x \in Handles |-> <<>>]
    /\ \E c \in InitialClouds : bdmBase = c.base /\ volAtt = c.att
    /\ pc = [t \in Threads |-> "idle"]
    /\ h = [t \in Threads |-> SelfH]
    /\ instAwsID = [t \in Threads |-> ""]
    /\ diskAwsID = [t \in Threads |-> EmptyStr]
    /\ mountDevice = [t \in Threads |-> EmptyStr]
    /\ alreadyAttached = [t \in Threads |-> FALSE]
    /\ attempt = [t \in Threads |-> 0]
    /\ req = [t \in Threads |-> <<>>]
    /\ ret = [t \in Threads |-> NoRet]
    /\ callArgs = [t \in Threads |-> NoCallArgs]
    /\ describes = [t \in Threads |-> 0]
    /\ detachReq = [t \in Threads |-> <<>>]

\* getAwsInstance (with getSelfAWSInstance): the handle, or the error. remoteOK says
\* whether the remote call it makes (metadata instance-id, or the instance listing) succeeds
getAwsInstance(t, instanceName, remoteOK) ==
    IF instanceName = ""
    THEN IF selfAWSInstance THEN [err |-> "", handle |-> SelfH, awsID |-> SelfInstanceID]
         ELSE IF ~remoteOK THEN [err |-> "SelfInstanceError", handle |-> SelfH, awsID |-> ""]
         ELSE [err |-> "", handle |-> SelfH, awsID |-> SelfInstanceID]
    ELSE IF ~remoteOK THEN [err |-> "InstanceError", handle |-> SelfH, awsID |-> ""]
         ELSE LET instance == getInstanceByDnsName(instanceName)
              IN  IF instance.err # "" THEN [err |-> instance.err, handle |-> SelfH, awsID |-> ""]
                  ELSE [err |-> "", handle |-> PrivH(t), awsID |-> instance.InstanceID]

\* a check that lets read-only attaches through
rejectsReadOnly_never(readOnly) == FALSE

\* AttachDisk, lines 1185-1189: a read-only attach is refused
rejectsReadOnly(readOnly) == readOnly

\* AttachDisk, lines 1175-1189: parse the name, get the instance handle, refuse read-only
AttachDisk_Begin(t, names) ==
    /\ pc[t] = "idle"
    /\ \E instanceName \in names, diskName \in DiskNames,
          readOnly \in BOOLEAN, remoteOK \in BOOLEAN :
        LET disk == newAWSDisk(diskName)
            inst == getAwsInstance(t, instanceName, remoteOK)
            gotInstance == ~disk.err /\ inst.err = ""
        IN  /\ callArgs' = [callArgs EXCEPT ![t] =
                              [op |-> "AttachDisk", instanceName |-> instanceName,
                               diskName |-> diskName, readOnly |-> readOnly]]
            /\ selfAWSInstance' = (selfAWSInstance \/ (gotInstance /\ inst.handle = SelfH))
            /\ IF gotInstance /\ inst.handle # SelfH
               THEN /\ mapped' = [mapped EXCEPT ![inst.handle] = FALSE]
                    /\ devMap' = [devMap EXCEPT ![inst.handle] = EmptyMap]
               ELSE UNCHANGED <<mapped, devMap>>
            /\ IF disk.err
               THEN /\ pc' = [pc EXCEPT ![t] = "done"]
                    /\ ret' = [ret EXCEPT ![t] = Failed("InvalidDisk")]
                    /\ UNCHANGED <<h, instAwsID, diskAwsID>>
               ELSE IF inst.err # ""
               THEN /\ pc' = [pc EXCEPT ![t] = "done"]
                    /\ ret' = [ret EXCEPT ![t] = Failed(inst.err)]
                    /\ UNCHANGED <<h, instAwsID, diskAwsID>>
               ELSE /\ h' = [h EXCEPT ![t] = inst.handle]
                    /\ instAwsID' = [instAwsID EXCEPT ![t] = inst.awsID]
                    /\ diskAwsID' = [diskAwsID EXCEPT ![t] = disk.awsID]
                    /\ IF rejectsReadOnly(readOnly)
                       THEN /\ pc' = [pc EXCEPT ![t] = "done"]
                            /\ ret' = [ret EXCEPT ![t] = Failed("ReadOnly")]
                       ELSE /\ pc' = [pc EXCEPT ![t] = "assignLock"]
                            /\ ret' = [ret EXCEPT ![t] = NoRet]
    /\ UNCHANGED <<mutex, bdmBase, volAtt, mountDevice, alreadyAttached, attempt, req>>
    /\ UNCHANGED <<describes, detachReq>>
    /\ UNCHANGED <<lbVars, pureVars, provVars>>

\* a return that leaves the mutex held
Unlock_never(m, x) == m

\* assignMountDevice, line 958: defer self.mutex.Unlock()
Unlock(m, x) == [m EXCEPT ![x] = <<>>]

\* assignMountDevice, line 957: self.mutex.Lock()
assign_Lock(t) ==
    /\ pc[t] = "assignLock"
    /\ mutex[h[t]] = <<>>
    /\ mutex' = [mutex EXCEPT ![h[t]] = <<t>>]
    /\ pc' = [pc EXCEPT ![t] = IF mapped[h[t]] THEN "assignPick" ELSE "assignInfo"]
    /\ UNCHANGED <<selfAWSInstance, mapped, devMap, bdmBase, volAtt, h, instAwsID,
                   diskAwsID, mountDevice, alreadyAttached, attempt, req, ret>>
    /\ UNCHANGED <<callArgs, describes, detachReq>>
    /\ UNCHANGED <<lbVars, pureVars, provVars>>

\* assignMountDevice, lines 961-971: populate the cache from the remote description
assign_GetInfo(t) ==
    /\ pc[t] = "assignInfo"
    /\ \E remoteOK \in BOOLEAN :
        IF remoteOK
        THEN /\ devMap' = [devMap EXCEPT ![h[t]] = BlockDeviceMappings(instAwsID[t])]
             /\ mapped' = [mapped EXCEPT ![h[t]] = TRUE]
             /\ pc' = [pc EXCEPT ![t] = "assignPick"]
             /\ UNCHANGED <<mutex, ret>>
        ELSE /\ mutex' = Unlock(mutex, h[t])
             /\ pc' = [pc EXCEPT ![t] = "done"]
             /\ ret' = [ret EXCEPT ![t] = Failed("InfoError")]
             /\ UNCHANGED <<devMap, mapped>>
    /\ UNCHANGED <<selfAWSInstance, bdmBase, volAtt, h, instAwsID, diskAwsID,
                   mountDevice, alreadyAttached, attempt, req>>
    /\ UNCHANGED <<callArgs, describes, detachReq>>
    /\ UNCHANGED <<lbVars, pureVars, provVars>>

\* assignMountDevice, lines 973-1000: find the volume or reserve a device; unlock
assign_Pick(t) ==
    /\ pc[t] = "assignPick"
    /\ LET deviceMappings == devMap[h[t]]
           found == findAssigned(deviceMappings, diskAwsID[t])
           chosen == chooseDevice(deviceMappings)
       IN  IF found # {}
           THEN \E deviceName \in found :
                    /\ mountDevice' = [mountDevice EXCEPT ![t] = deviceName]
                    /\ alreadyAttached' = [alreadyAttached EXCEPT ![t] = TRUE]
                    /\ pc' = [pc EXCEPT ![t] = "wait"]
                    /\ UNCHANGED devMap
           ELSE /\ mountDevice' = [mountDevice EXCEPT ![t] = chosen]
                /\ alreadyAttached' = [alreadyAttached EXCEPT ![t] = FALSE]
                /\ pc' = [pc EXCEPT ![t] = "attach"]
                /\ devMap' = IF chosen = EmptyStr THEN devMap
                             ELSE [devMap EXCEPT ![h[t]] =
                                     withMapping(deviceMappings, chosen, diskAwsID[t])]
    /\ mutex' = Unlock(mutex, h[t])
    /\ UNCHANGED <<selfAWSInstance, mapped, bdmBase, volAtt, h, instAwsID, diskAwsID,
                   attempt, req, ret>>
    /\ UNCHANGED <<callArgs, describes, detachReq>>
    /\ UNCHANGED <<lbVars, pureVars, provVars>>

\* AttachDisk, lines 1203-1211: the remote AttachVolume
AttachDisk_AttachVolume(t) ==
    /\ pc[t] = "attach"
    /\ LET request == [volumeID |-> diskAwsID[t], instanceId |-> instAwsID[t],
                       mountDevice |-> mountDevice[t]]
       IN  /\ req' = [req EXCEPT ![t] = Append(@, request)]
           /\ \/ /\ CloudCanAttach(request.volumeID, request.instanceId, request.mountDevice)
                 /\ volAtt' = [volAtt EXCEPT ![request.volumeID] =
                                 [state |-> "attaching", inst |-> request.instanceId,
                                  dev |-> request.mountDevice]]
                 /\ pc' = [pc EXCEPT ![t] = "wait"]
                 /\ UNCHANGED ret
              \/ /\ pc' = [pc EXCEPT ![t] = "release"]
                 /\ ret' = [ret EXCEPT ![t] = Failed("AttachError")]
                 /\ UNCHANGED volAtt
    /\ UNCHANGED <<selfAWSInstance, mapped, devMap, mutex, bdmBase, h, instAwsID, diskAwsID,
                   mountDevice, alreadyAttached, attempt>>
    /\ UNCHANGED <<callArgs, describes, detachReq>>
    /\ UNCHANGED <<lbVars, pureVars, provVars>>

\* waitForAttachmentStatus("attached"), one pass of its loop, and AttachDisk's lines 1213-1225
AttachDisk_Wait(t, maxAttempts) ==
    /\ pc[t] = "wait"
    /\ describes' = [describes EXCEPT ![t] = @ + 1]
    /\ \E remoteOK \in BOOLEAN :
        IF ~remoteOK
        THEN /\ pc' = [pc EXCEPT ![t] = "release"]
             /\ ret' = [ret EXCEPT ![t] = Failed("PollError")]
             /\ UNCHANGED attempt
        ELSE IF attachmentStatus(Attachments(diskAwsID[t])) = "attached"
        THEN /\ pc' = [pc EXCEPT ![t] = "done"]
             /\ ret' = [ret EXCEPT ![t] = [err |-> "", dev |-> hostDevice(mountDevice[t])]]
             /\ UNCHANGED attempt
        ELSE /\ attempt' = [attempt EXCEPT ![t] = @ + 1]
             /\ IF attempt[t] + 1 > maxAttempts
                THEN /\ pc' = [pc EXCEPT ![t] = "release"]
                     /\ ret' = [ret EXCEPT ![t] = Failed("Timeout")]
                ELSE UNCHANGED <<pc, ret>>
    /\ UNCHANGED <<selfAWSInstance, mapped, devMap, mutex, bdmBase, volAtt, h, instAwsID,
                   diskAwsID, mountDevice, alreadyAttached, req>>
    /\ UNCHANGED <<callArgs, detachReq>>
    /\ UNCHANGED <<lbVars, pureVars, provVars>>

\* AttachDisk, lines 1197-1201: the deferred releaseMountDevice of a call that failed
AttachDisk_Release(t) ==
    /\ pc[t] = "release"
    /\ mutex[h[t]] = <<>>
    /\ devMap' = [devMap EXCEPT ![h[t]] = releaseMountDevice(@, diskAwsID[t], mountDevice[t])]
    /\ pc' = [pc EXCEPT ![t] = "done"]
    /\ UNCHANGED <<selfAWSInstance, mapped, mutex, bdmBase, volAtt, h, instAwsID,
                   diskAwsID, mountDevice, alreadyAttached, attempt, req, ret>>
    /\ UNCHANGED <<callArgs, describes, detachReq>>
    /\ UNCHANGED <<lbVars, pureVars, provVars>>

\* the caller takes the result; the thread is free for its next call
AttachDisk_Return(t) ==
    /\ pc[t] = "done"
    /\ pc' = [pc EXCEPT ![t] = "idle"]
    /\ h' = [h EXCEPT ![t] = SelfH]
    /\ instAwsID' = [instAwsID EXCEPT ![t] = ""]
    /\ diskAwsID' = [diskAwsID EXCEPT ![t] = EmptyStr]
    /\ mountDevice' = [mountDevice EXCEPT ![t] = EmptyStr]
    /\ alreadyAttached' = [alreadyAttached EXCEPT ![t] = FALSE]
    /\ attempt' = [attempt EXCEPT ![t] = 0]
    /\ req' = [req EXCEPT ![t] = <<>>]
    /\ ret' = [ret EXCEPT ![t] = NoRet]
    /\ callArgs' = [callArgs EXCEPT ![t] = NoCallArgs]
    /\ describes' = [describes EXCEPT ![t] = 0]
    /\ detachReq' = [detachReq EXCEPT ![t] = <<>>]
    /\ mapped' = [mapped EXCEPT ![PrivH(t)] = FALSE]
    /\ devMap' = [devMap EXCEPT ![PrivH(t)] = EmptyMap]
    /\ UNCHANGED <<selfAWSInstance, mutex, bdmBase, volAtt>>
    /\ UNCHANGED <<lbVars, pureVars, provVars>>

\* the cloud finishes an attach it accepted
Cloud_AttachCompletes ==
    /\ \E v \in TestVolumes :
        /\ volAtt[v].state = "attaching"
        /\ volAtt' = [volAtt EXCEPT ![v].state = "attached"]
    /\ UNCHANGED <<selfAWSInstance, mapped, devMap, mutex, bdmBase, pc, h, instAwsID,
                   diskAwsID, mountDevice, alreadyAttached, attempt, req, ret>>
    /\ UNCHANGED <<callArgs, describes, detachReq>>
    /\ UNCHANGED <<lbVars, pureVars, provVars>>

----------------------------------------------------------------------------
(* DetachDisk *)

\* EC2 accepts a detach of a volume that is attached, or being attached, to the instance
CloudCanDetach(v, instanceId) ==
    /\ v \in TestVolumes
    /\ volAtt[v].state \in {"attaching", "attached"}
    /\ volAtt[v].inst = instanceId

\* DetachDisk, lines 1230-1238: parse the name, get the instance handle
DetachDisk_Begin(t, names) ==
    /\ pc[t] = "idle"
    /\ \E instanceName \in names, diskName \in DiskNames, remoteOK \in BOOLEAN :
        LET disk == newAWSDisk(diskName)
            inst == getAwsInstance(t, instanceName, remoteOK)
            gotInstance == ~disk.err /\ inst.err = ""
        IN  /\ callArgs' = [callArgs EXCEPT ![t] =
                              [op |-> "DetachDisk", instanceName |-> instanceName,
                               diskName |-> diskName, readOnly |-> FALSE]]
            /\ selfAWSInstance' = (selfAWSInstance \/ (gotInstance /\ inst.handle = SelfH))
            /\ IF disk.err
               THEN /\ pc' = [pc EXCEPT ![t] = "done"]
                    /\ ret' = [ret EXCEPT ![t] = Failed("InvalidDisk")]
                    /\ UNCHANGED <<h, instAwsID, diskAwsID>>
               ELSE IF inst.err # ""
               THEN /\ pc' = [pc EXCEPT ![t] = "done"]
                    /\ ret' = [ret EXCEPT ![t] = Failed(inst.err)]
                    /\ UNCHANGED <<h, instAwsID, diskAwsID>>
               ELSE /\ h' = [h EXCEPT ![t] = inst.handle]
                    /\ instAwsID' = [instAwsID EXCEPT ![t] = inst.awsID]
                    /\ diskAwsID' = [diskAwsID EXCEPT ![t] = disk.awsID]
                    /\ pc' = [pc EXCEPT ![t] = "detach"]
                    /\ ret' = [ret EXCEPT ![t] = NoRet]
    /\ UNCHANGED <<mapped, devMap, mutex, bdmBase, volAtt, mountDevice, alreadyAttached,
                   attempt, req, describes, detachReq>>
    /\ UNCHANGED <<lbVars, pureVars, provVars>>

\* what DetachDisk makes of the reply to DetachVolume, lines 1246-1251: "" to go on
detachReplyError(err, responseNil) ==
    IF err THEN "DetachError"
    ELSE IF responseNil THEN "ProtocolError"
    ELSE ""

\* DetachDisk, lines 1240-1251: the remote DetachVolume; an error, or no response,
\* ends the call
DetachDisk_DetachVolume(t) ==
    /\ pc[t] = "detach"
    /\ LET request == [volumeID |-> diskAwsID[t], instanceId |-> instAwsID[t]]
       IN  \E err \in BOOLEAN, responseNil \in BOOLEAN :
                /\ err => responseNil
                /\ ~CloudCanDetach(request.volumeID, request.instanceId) => err
                /\ detachReq' = [detachReq EXCEPT ![t] =
                       Append(@, [request |-> request, err |-> err, responseNil |-> responseNil])]
                /\ volAtt' = IF err THEN volAtt
                             ELSE [volAtt EXCEPT ![request.volumeID].state = "detaching"]
                /\ IF detachReplyError(err, responseNil) # ""
                   THEN /\ pc' = [pc EXCEPT ![t] = "done"]
                        /\ ret' = [ret EXCEPT ![t] = Failed(detachReplyError(err, responseNil))]
                   ELSE /\ pc' = [pc EXCEPT ![t] = "detachWait"]
                        /\ UNCHANGED ret
    /\ UNCHANGED <<selfAWSInstance, mapped, devMap, mutex, bdmBase, h, instAwsID, diskAwsID,
                   mountDevice, alreadyAttached, attempt, req, callArgs, describes>>
    /\ UNCHANGED <<lbVars, pureVars, provVars>>

\* waitForAttachmentStatus("detached"), one pass of its loop, and DetachDisk's lines 1252-1257
DetachDisk_Wait(t, maxAttempts) ==
    /\ pc[t] = "detachWait"
    /\ describes' = [describes EXCEPT ![t] = @ + 1]
    /\ \E remoteOK \in BOOLEAN :
        IF ~remoteOK
        THEN /\ pc' = [pc EXCEPT ![t] = "done"]
             /\ ret' = [ret EXCEPT ![t] = Failed("PollError")]
             /\ UNCHANGED attempt
        ELSE IF attachmentStatus(Attachments(diskAwsID[t])) = "detached"
        THEN /\ pc' = [pc EXCEPT ![t] = "done"]
             /\ ret' = [ret EXCEPT ![t] = NoRet]
             /\ UNCHANGED attempt
        ELSE /\ attempt' = [attempt EXCEPT ![t] = @ + 1]
             /\ IF attempt[t] + 1 > maxAttempts
                THEN /\ pc' = [pc EXCEPT ![t] = "done"]
                     /\ ret' = [ret EXCEPT ![t] = Failed("Timeout")]
                ELSE UNCHANGED <<pc, ret>>
    /\ UNCHANGED <<selfAWSInstance, mapped, devMap, mutex, bdmBase, volAtt, h, instAwsID,
                   diskAwsID, mountDevice, alreadyAttached, req, callArgs, detachReq>>
    /\ UNCHANGED <<lbVars, pureVars, provVars>>

\* the cloud finishes a detach it accepted
Cloud_DetachCompletes ==
    /\ \E v \in TestVolumes :
        /\ volAtt[v].state = "detaching"
        /\ volAtt' = [volAtt EXCEPT ![v] = NoAttachment]
    /\ UNCHANGED <<selfAWSInstance, mapped, devMap, mutex, bdmBase, pc, h, instAwsID,
                   diskAwsID, mountDevice, alreadyAttached, attempt, req, ret,
                   callArgs, describes, detachReq>>
    /\ UNCHANGED <<lbVars, pureVars, provVars>>

\* waitForAttachmentStatus, line 1080: maxAttempts := 60
MaxAttempts == 60

\* the steps of the AttachDisk and DetachDisk calls of the callers, polling with budget
DiskStep(callers, names, budget) ==
    \/ \E t \in callers : AttachDisk_Begin(t, names)
    \/ \E t \in callers : assign_Lock(t)
    \/ \E t \in callers : assign_GetInfo(t)
    \/ \E t \in callers : assign_Pick(t)
    \/ \E t \in callers : AttachDisk_AttachVolume(t)
    \/ \E t \in callers : AttachDisk_Wait(t, budget)
    \/ \E t \in callers : AttachDisk_Release(t)
    \/ \E t \in callers : AttachDisk_Return(t)
    \/ \E t \in callers : DetachDisk_Begin(t, names)
    \/ \E t \in callers : DetachDisk_DetachVolume(t)
    \/ \E t \in callers : DetachDisk_Wait(t, budget)
    \/ Cloud_AttachCompletes
    \/ Cloud_DetachCompletes

\* the steps of AttachDisk calls whose instanceName is drawn from names
VolStep(names) ==
    \/ \E t \in Threads : AttachDisk_Begin(t, names)
    \/ \E t \in Threads : assign_Lock(t)
    \/ \E t \in Threads : assign_GetInfo(t)
    \/ \E t \in Threads : assign_Pick(t)
    \/ \E t \in Threads : AttachDisk_AttachVolume(t)
    \/ \E t \in Threads : AttachDisk_Wait(t, PollBudget)
    \/ \E t \in Threads : AttachDisk_Release(t)
    \/ \E t \in Threads : AttachDisk_Return(t)
    \/ Cloud_AttachCompletes

----------------------------------------------------------------------------
(* The cloud: VPCs, subnets, security groups, load balancers *)

Region1 == <<"u", "s", "-", "e", "a", "s", "t", "-", "1">>
Region2 == <<"e", "u", "-", "w", "e", "s", "t", "-", "1">>
Regions == {Region1, Region2}

ClusterVPC == "vpc-1"

\* the networks a behaviour starts from: the VPCs tagged Name=kubernetes-vpc and
\* the subnets of the cluster VPC
InitialNetworks ==
    { [vpcs |-> <<>>, subnets |-> <<>>],
      [vpcs |-> <<ClusterVPC>>, subnets |-> <<>>],
      [vpcs |-> <<ClusterVPC>>,
       subnets |-> <<[SubnetID |-> "subnet-1", AvailabilityZone |-> Region1 \o <<"a">>]>>],
      [vpcs |-> <<ClusterVPC>>,
       subnets |-> <<[SubnetID |-> "subnet-1", AvailabilityZone |-> Region1 \o <<"a">>],
                     [SubnetID |-> "subnet-2", AvailabilityZone |-> Region2 \o <<"b">>]>>],
      [vpcs |-> <<ClusterVPC, "vpc-2">>, subnets |-> <<>>] }

AnySource == "0.0.0.0/0"
OfficeSource == "10.0.0.0/8"

TCP == <<"T", "C", "P">>
UDP == <<"U", "D", "P">>

ServicePort(port, nodePort, protocol) ==
    [Port |-> port, NodePort |-> nodePort, Protocol |-> protocol]

\* the ports arguments the model passes to CreateTCPLoadBalancer
PortLists ==
    { <<ServicePort(80, 30080, TCP)>>,
      <<ServicePort(80, 30080, TCP), ServicePort(443, 0, TCP)>>,
      <<ServicePort(53, 30053, UDP), ServicePort(53, 30053, UDP)>> }

\* the hosts arguments the model passes to CreateTCPLoadBalancer
HostLists == { <<"node1", "node2">>, <<"node1", "node3">> }

SvcA == <<"s", "v", "c", "-", "a">>

LBNames == {SvcA}

\* the arguments of the CreateTCPLoadBalancer calls of the model
CreateArgs ==
    [name : LBNames, region : Regions, publicIP : {"nil"}, ports : PortLists,
     hosts : HostLists, affinity : {"None"}]
    \cup { [name |-> SvcA, region |-> Region1, publicIP |-> "1.2.3.4",
            ports |-> <<ServicePort(80, 30080, TCP)>>, hosts |-> <<"node1", "node2">>,
            affinity |-> "None"],
          [name |-> SvcA, region |-> Region1, publicIP |-> "nil",
            ports |-> <<ServicePort(80, 30080, TCP)>>, hosts |-> <<"node1", "node2">>,
            affinity |-> "ClientIP"],
          [name |-> SvcA, region |-> Region1, publicIP |-> "nil",
            ports |-> <<ServicePort(80, 30080, TCP)>>, hosts |-> <<"node1", "twin">>,
            affinity |-> "None"] }

\* sgName := "k8s-elb-" + name
sgNameOf(name) == <<"k8s-elb-", name>>

IPPermission(protocol, port, ranges) ==
    [IPProtocol |-> protocol, FromPort |-> port, ToPort |-> port, IPRanges |-> ranges]

\* the ingress permissions a security group that exists at the start may hold; EC2
\* describes one permission per (protocol, from, to) with all its CIDR ranges
InitialPermissions ==
    { {},
      {IPPermission(ToLower(TCP), 80, {AnySource})},
      {IPPermission(ToLower(TCP), 80, {OfficeSource})},
      {IPPermission(ToLower(TCP), 80, {AnySource, OfficeSource})} }

SecurityGroup(id, name, vpc, permissions) ==
    [GroupID |-> id, GroupName |-> name, VPCID |-> vpc, IPPermissions |-> permissions]

\* the id EC2 gives the group it creates under a name
NewGroupID(name) == <<"sg-", name>>

ExistingDNS == <<"abc", ".elb">>

\* the DNS name ELB gives the load balancer it creates
NewDNSName(region, name) == <<name, ".", region, ".elb">>

LoadBalancer(region, name, dns, instances, listeners, subnetIds, securityGroups) ==
    [Region |-> region, LoadBalancerName |-> name, DNSName |-> dns, Instances |-> instances,
     Listeners |-> listeners, Subnets |-> subnetIds, SecurityGroups |-> securityGroups]

\* the load balancers and security groups a behaviour starts from: neither, the
\* security group of svc-a alone, or both
InitialLBClouds ==
    { [lbs |-> {}, groups |-> {}] }
    \cup { [lbs |-> {},
            groups |-> {SecurityGroup(NewGroupID(SvcA), sgNameOf(SvcA), ClusterVPC, p)}]
           : p \in InitialPermissions }
    \cup { [lbs |-> {LoadBalancer(Region1, SvcA, ExistingDNS, {}, <<>>, <<>>,
                                  <<NewGroupID(SvcA)>>)},
            groups |-> {SecurityGroup(NewGroupID(SvcA), sgNameOf(SvcA), ClusterVPC, p)}]
           : p \in InitialPermissions }

\* ELB.DescribeLoadBalancers by name through the client of a region
DescribeLoadBalancers(region, name) ==
    {lb \in lbs : lb.Region = region /\ lb.LoadBalancerName = name}

\* EC2.DescribeSecurityGroups by ids, or by group-name and vpc-id filters
DescribeSecurityGroups(groupIds, filterName, filterVPCId) ==
    {g \in groups :
        /\ groupIds # {} => g.GroupID \in groupIds
        /\ filterName # "" => g.GroupName = filterName
        /\ filterVPCId # "" => g.VPCID = filterVPCId}

\* the (protocol, from, to, cidr) rules a set of permissions admits
RulesOf(permissions) ==
    UNION {{<<p.IPProtocol, p.FromPort, p.ToPort, c>> : c \in p.IPRanges} : p \in permissions}

SeqRange(s) == {s[i] : i \in DOMAIN s}

\* EC2.AuthorizeSecurityGroupIngress refuses a rule the group already has
\* (InvalidPermission.Duplicate)
AuthorizeAccepted(permissions, requested) ==
    RulesOf(SeqRange(requested)) \cap RulesOf(permissions) = {}

\* the group's permissions after an accepted authorize: the rules are merged, one
\* permission per (protocol, from, to)
AfterAuthorize(permissions, requested) ==
    LET all == permissions \cup SeqRange(requested)
        keys == {<<p.IPProtocol, p.FromPort, p.ToPort>> : p \in all}
    IN  {[IPProtocol |-> k[1], FromPort |-> k[2], ToPort |-> k[3],
          IPRanges |-> UNION {p.IPRanges :
                                p \in {q \in all : <<q.IPProtocol, q.FromPort, q.ToPort>> = k}}]
         : k \in keys}

----------------------------------------------------------------------------
(* CreateTCPLoadBalancer and ensureSecurityGroupIngess *)

NoStatus == [Ingress |-> <<>>]

NoLBRet == [err |-> "", status |-> NoStatus]

LBFailed(e) == [err |-> e, status |-> NoStatus]

NoArgs == [name |-> EmptyStr, region |-> EmptyStr, publicIP |-> "nil", ports |-> <<>>,
           hosts |-> <<>>, affinity |-> "None"]

\* the frame of a load balancer call: the operation, its arguments and locals; before
\* is the load balancers of the cloud when the call was made, found the answer of a lookup
NoFrame ==
    [op |-> "", before |-> {}, found |-> FALSE, existingInstances |-> {},
     args |-> NoArgs, existed |-> FALSE, instances |-> <<>>, vpc |-> "", subnetIds |-> <<>>,
     securityGroupId |-> EmptyStr, newPermissions |-> <<>>, loadBalancerName |-> EmptyStr,
     dnsName |-> EmptyStr]

NoPrev == [valid |-> FALSE, op |-> "", existed |-> FALSE, args |-> NoArgs, ok |-> FALSE, status |-> NoStatus]

Call(op, arg) == [op |-> op, arg |-> arg]

InitLBQuiet ==
    /\ elbClients = {}
    /\ vpcs = <<>> /\ subnets = <<>>
    /\ lbs = {} /\ groups = {}
    /\ lbpc = [t \in Threads |-> "idle"]
    /\ cr = [t \in Threads |-> NoFrame]
    /\ calls = [t \in Threads |-> <<>>]
    /\ lbRet = [t \in Threads |-> NoLBRet]
    /\ prev = NoPrev

InitLBCloud ==
    /\ elbClients = {}
    /\ \E n \in InitialNetworks : vpcs = n.vpcs /\ subnets = n.subnets
    /\ \E c \in InitialLBClouds : lbs = c.lbs /\ groups = c.groups
    /\ lbpc = [t \in Threads |-> "idle"]
    /\ cr = [t \in Threads |-> NoFrame]
    /\ calls = [t \in Threads |-> <<>>]
    /\ lbRet = [t \in Threads |-> NoLBRet]
    /\ prev = NoPrev

\* a cloud where EC2 answers the lookup by name with two groups, and one with none
InitLBTwin ==
    /\ elbClients = {}
    /\ vpcs = <<ClusterVPC>> /\ subnets = <<>>
    /\ lbs = {}
    /\ groups \in
          { {},
            {SecurityGroup(NewGroupID(SvcA), sgNameOf(SvcA), ClusterVPC, {}),
             SecurityGroup(NewGroupID(<<"t", "w", "i", "n">>), sgNameOf(SvcA), ClusterVPC,
                           {IPPermission(ToLower(TCP), 80, {AnySource}),
                            IPPermission(ToLower(UDP), 53, {AnySource})})} }
    /\ lbpc = [t \in Threads |-> "idle"]
    /\ cr = [t \in Threads |-> NoFrame]
    /\ calls = [t \in Threads |-> <<>>]
    /\ lbRet = [t \in Threads |-> NoLBRet]
    /\ prev = NoPrev

\* a step of a call that returns an error
LBFail(t, e) ==
    /\ lbpc' = [lbpc EXCEPT ![t] = "done"]
    /\ lbRet' = [lbRet EXCEPT ![t] = LBFailed(e)]

\* a step of a call that goes on to label next
LBGoto(t, next) ==
    /\ lbpc' = [lbpc EXCEPT ![t] = next]
    /\ UNCHANGED lbRet

\* getELBClient: the client map afterwards, given whether the factory succeeds
getELBClient(clients, regionName, factoryOK) ==
    IF regionName \in clients THEN [err |-> FALSE, clients |-> clients]
    ELSE IF ~factoryOK THEN [err |-> TRUE, clients |-> clients]
    ELSE [err |-> FALSE, clients |-> clients \cup {regionName}]

\* CreateTCPLoadBalancer, lines 1446-1458: the client of the region, affinity, publicIP
Create_Begin(t) ==
    /\ lbpc[t] = "idle"
    /\ \E args \in CreateArgs, factoryOK \in BOOLEAN :
        LET client == getELBClient(elbClients, args.region, factoryOK)
        IN  /\ elbClients' = client.clients
            /\ cr' = [cr EXCEPT ![t] =
                        [NoFrame EXCEPT !.op = "Create", !.before = lbs, !.args = args,
                                        !.existed = DescribeLoadBalancers(args.region, args.name) # {}]]
            /\ calls' = [calls EXCEPT ![t] = <<>>]
            /\ IF client.err THEN LBFail(t, "ClientError")
               ELSE IF args.affinity # "None" THEN LBFail(t, "UnsupportedAffinity")
               ELSE IF args.publicIP # "nil" THEN LBFail(t, "PublicIPUnsupported")
               ELSE LBGoto(t, "resolve")
    /\ UNCHANGED <<vpcs, subnets, lbs, groups, prev>>
    /\ UNCHANGED <<volVars, pureVars, provVars>>

\* a resolution that reports no error for any host
firstHostError_none(names, i) == ""

\* getInstancesByDnsNames: the error of the first host that does not resolve, "" if all do
RECURSIVE firstHostError(_, _)
firstHostError(names, i) ==
    IF i > Len(names) THEN ""
    ELSE IF getInstanceByDnsName(names[i]).err # "" THEN getInstanceByDnsName(names[i]).err
    ELSE firstHostError(names, i + 1)

\* getInstancesByDnsNames: the instances of the names, in order
getInstancesByDnsNames(names) ==
    [i \in 1..Len(names) |-> getInstanceByDnsName(names[i]).InstanceID]

\* CreateTCPLoadBalancer, lines 1460-1463
Create_Resolve(t) ==
    /\ lbpc[t] = "resolve"
    /\ \E remoteOK \in BOOLEAN :
        IF ~remoteOK THEN LBFail(t, "InstanceError") /\ UNCHANGED cr
        ELSE IF firstHostError(cr[t].args.hosts, 1) # ""
        THEN LBFail(t, firstHostError(cr[t].args.hosts, 1)) /\ UNCHANGED cr
        ELSE /\ cr' = [cr EXCEPT ![t].instances = getInstancesByDnsNames(cr[t].args.hosts)]
             /\ LBGoto(t, "findVPC")
    /\ UNCHANGED <<elbClients, vpcs, subnets, lbs, groups, calls, prev>>
    /\ UNCHANGED <<volVars, pureVars, provVars>>

\* findVPC and CreateTCPLoadBalancer, lines 1465-1472
Create_FindVPC(t) ==
    /\ lbpc[t] = "findVPC"
    /\ \E remoteOK \in BOOLEAN :
        IF ~remoteOK THEN LBFail(t, "VPCError") /\ UNCHANGED cr
        ELSE IF Len(vpcs) = 0 THEN LBFail(t, "NoVPC") /\ UNCHANGED cr
        ELSE IF Len(vpcs) = 1
        THEN /\ cr' = [cr EXCEPT ![t].vpc = vpcs[1]]
             /\ LBGoto(t, "subnets")
        ELSE LBFail(t, "MultipleVPC") /\ UNCHANGED cr
    /\ UNCHANGED <<elbClients, vpcs, subnets, lbs, groups, calls, prev>>
    /\ UNCHANGED <<volVars, pureVars, provVars>>

\* EC2.DescribeSubnets filtered by vpc-id
DescribeSubnets(vpcId) == IF vpcId = ClusterVPC THEN subnets ELSE <<>>

\* CreateTCPLoadBalancer, lines 1475-1497: the subnet ids, every AZ in the region
Create_Subnets(t) ==
    /\ lbpc[t] = "subnets"
    /\ \E remoteOK \in BOOLEAN :
        LET response == DescribeSubnets(cr[t].vpc)
        IN  IF ~remoteOK THEN LBFail(t, "SubnetError") /\ UNCHANGED cr
            ELSE IF \E i \in DOMAIN response :
                        ~HasPrefix(response[i].AvailabilityZone, cr[t].args.region)
            THEN LBFail(t, "InvalidAZ") /\ UNCHANGED cr
            ELSE /\ cr' = [cr EXCEPT ![t].subnetIds =
                             [i \in DOMAIN response |-> response[i].SubnetID]]
                 /\ LBGoto(t, "describeLB")
    /\ UNCHANGED <<elbClients, vpcs, subnets, lbs, groups, calls, prev>>
    /\ UNCHANGED <<volVars, pureVars, provVars>>

\* a lookup that never finds the load balancer
describeLoadBalancer_none(region, name) == {}

\* describeLoadBalancer: the descriptions it may return, {} for nil
describeLoadBalancer(region, name) == DescribeLoadBalancers(region, name)

\* CreateTCPLoadBalancer, lines 1502-1507 and 1585-1589: describe, adopt what is found
Create_DescribeLB(t) ==
    /\ lbpc[t] = "describeLB"
    /\ \E remoteOK \in BOOLEAN :
        LET found == describeLoadBalancer(cr[t].args.region, cr[t].args.name)
        IN  IF ~remoteOK THEN LBFail(t, "DescribeLBError") /\ UNCHANGED cr
            ELSE IF found = {} THEN LBGoto(t, "describeSG") /\ UNCHANGED cr
            ELSE \E loadBalancer \in found :
                    /\ cr' = [cr EXCEPT ![t].dnsName = loadBalancer.DNSName,
                                        ![t].loadBalancerName = loadBalancer.LoadBalancerName]
                    /\ LBGoto(t, "register")
    /\ UNCHANGED <<elbClients, vpcs, subnets, lbs, groups, calls, prev>>
    /\ UNCHANGED <<volVars, pureVars, provVars>>

\* CreateTCPLoadBalancer, lines 1538-1554: the security group of the name in the VPC
Create_DescribeSG(t) ==
    /\ lbpc[t] = "describeSG"
    /\ \E remoteOK \in BOOLEAN :
        LET securityGroups ==
                DescribeSecurityGroups({}, sgNameOf(cr[t].args.name), cr[t].vpc)
        IN  IF ~remoteOK THEN LBFail(t, "DescribeSGError") /\ UNCHANGED cr
            ELSE IF securityGroups = {} THEN LBGoto(t, "createSG") /\ UNCHANGED cr
            ELSE \E securityGroup \in securityGroups :
                    /\ cr' = [cr EXCEPT ![t].securityGroupId = securityGroup.GroupID]
                    /\ LBGoto(t, "ensureIngress")
    /\ UNCHANGED <<elbClients, vpcs, subnets, lbs, groups, calls, prev>>
    /\ UNCHANGED <<volVars, pureVars, provVars>>

\* CreateTCPLoadBalancer, lines 1555-1569: EC2 refuses a group name the VPC already has
Create_CreateSG(t) ==
    /\ lbpc[t] = "createSG"
    /\ LET sgName == sgNameOf(cr[t].args.name)
       IN  /\ calls' = [calls EXCEPT ![t] = Append(@, Call("CreateSecurityGroup", sgName))]
           /\ \/ /\ DescribeSecurityGroups({}, sgName, cr[t].vpc) = {}
                 /\ groups' = groups \cup
                        {SecurityGroup(NewGroupID(cr[t].args.name), sgName, cr[t].vpc, {})}
                 /\ cr' = [cr EXCEPT ![t].securityGroupId = NewGroupID(cr[t].args.name)]
                 /\ LBGoto(t, "ensureIngress")
              \/ /\ LBFail(t, "CreateSGError")
                 /\ UNCHANGED <<groups, cr>>
    /\ UNCHANGED <<elbClients, vpcs, subnets, lbs, prev>>
    /\ UNCHANGED <<volVars, pureVars, provVars>>

\* a scan that takes every port for found
permissionFound_always(permissions, port, protocol, sourceIp) == TRUE

\* ensureSecurityGroupIngess, lines 1392-1410: some permission is exactly the port,
\* the protocol and the single source
permissionFound(permissions, port, protocol, sourceIp) ==
    \E permission \in permissions :
        /\ permission.FromPort = port
        /\ permission.ToPort = port
        /\ permission.IPProtocol = protocol
        /\ Cardinality(permission.IPRanges) = 1
        /\ permission.IPRanges = {sourceIp}

\* ensureSecurityGroupIngess, lines 1386-1421: a permission for each port not found
newPermissionsOf(permissions, sourceIp, ports) ==
    LET NotFound(port) ==
            ~permissionFound(permissions, port.Port, ToLower(port.Protocol), sourceIp)
        missing == SelectSeq(ports, NotFound)
    IN  [i \in 1..Len(missing) |->
            IPPermission(ToLower(missing[i].Protocol), missing[i].Port, {sourceIp})]

\* the return of ensureSecurityGroupIngess: to CreateTCPLoadBalancer at line 1571, which
\* drops changed and returns the error if there is one, or to a caller of its own
ensure_Return(t, changed, e) ==
    IF cr[t].op = "Create"
    THEN IF e # "" THEN LBFail(t, e) ELSE LBGoto(t, "createLB")
    ELSE /\ lbpc' = [lbpc EXCEPT ![t] = "done"]
         /\ lbRet' = [lbRet EXCEPT ![t] =
                         [err |-> e, status |-> NoStatus, changed |-> changed]]

\* ensureSecurityGroupIngess, lines 1370-1425, called from line 1571 with "0.0.0.0/0"
ensure_Describe(t) ==
    /\ lbpc[t] = "ensureIngress"
    /\ \E remoteOK \in BOOLEAN :
        LET found == DescribeSecurityGroups({cr[t].securityGroupId}, "", "")
        IN  IF ~remoteOK THEN ensure_Return(t, FALSE, "DescribeSGError") /\ UNCHANGED cr
            ELSE IF found = {} THEN ensure_Return(t, FALSE, "SGNotFound") /\ UNCHANGED cr
            ELSE IF Cardinality(found) # 1
            THEN ensure_Return(t, FALSE, "MultipleSG") /\ UNCHANGED cr
            ELSE LET group == CHOOSE g \in found : TRUE
                     newPermissions ==
                         newPermissionsOf(group.IPPermissions, AnySource, cr[t].args.ports)
                 IN  /\ cr' = [cr EXCEPT ![t].newPermissions = newPermissions]
                     /\ IF Len(newPermissions) = 0
                        THEN ensure_Return(t, FALSE, "")
                        ELSE LBGoto(t, "authorize")
    /\ UNCHANGED <<elbClients, vpcs, subnets, lbs, groups, calls, prev>>
    /\ UNCHANGED <<volVars, pureVars, provVars>>

\* ensureSecurityGroupIngess, lines 1427-1437, and CreateTCPLoadBalancer, lines 1572-1575
ensure_Authorize(t) ==
    /\ lbpc[t] = "authorize"
    /\ LET id == cr[t].securityGroupId
           requested == cr[t].newPermissions
       IN  /\ calls' = [calls EXCEPT ![t] =
                          Append(@, Call("AuthorizeSecurityGroupIngress", <<id, requested>>))]
           /\ \/ /\ \E g \in groups :
                       /\ g.GroupID = id
                       /\ AuthorizeAccepted(g.IPPermissions, requested)
                       /\ groups' = (groups \ {g}) \cup
                              {[g EXCEPT !.IPPermissions = AfterAuthorize(@, requested)]}
                 /\ ensure_Return(t, TRUE, "")
              \/ /\ ensure_Return(t, FALSE, "AuthorizeError")
                 /\ UNCHANGED groups
    /\ UNCHANGED <<elbClients, vpcs, subnets, lbs, cr, prev>>
    /\ UNCHANGED <<volVars, pureVars, provVars>>

\* CreateTCPLoadBalancer, lines 1511-1528: a listener for each port with a NodePort
listenersOf(ports) ==
    LET HasNodePort(port) == port.NodePort # 0
        kept == SelectSeq(ports, HasNodePort)
    IN  [i \in 1..Len(kept) |->
            [InstancePort |-> kept[i].NodePort, LoadBalancerPort |-> kept[i].Port,
             Protocol |-> ToLower(kept[i].Protocol),
             InstanceProtocol |-> ToLower(kept[i].Protocol)]]

\* a request that names no security group
securityGroupsOf_none(securityGroupId) == <<>>

\* CreateTCPLoadBalancer, line 1575: createRequest.SecurityGroups
securityGroupsOf(securityGroupId) == <<securityGroupId>>

\* CreateTCPLoadBalancer, lines 1508-1536 and 1575-1584: ELB creates the load balancer,
\* answers with the one it has when the request repeats it, or fails
Create_CreateLB(t) ==
    /\ lbpc[t] = "createLB"
    /\ LET args == cr[t].args
           createRequest ==
               LoadBalancer(args.region, args.name, NewDNSName(args.region, args.name), {},
                            listenersOf(args.ports), cr[t].subnetIds,
                            securityGroupsOf(cr[t].securityGroupId))
       IN  /\ calls' = [calls EXCEPT ![t] = Append(@, Call("CreateLoadBalancer", createRequest))]
           /\ \/ /\ DescribeLoadBalancers(args.region, args.name) = {}
                 /\ lbs' = lbs \cup {createRequest}
                 /\ cr' = [cr EXCEPT ![t].dnsName = createRequest.DNSName,
                                     ![t].loadBalancerName = args.name]
                 /\ LBGoto(t, "register")
              \/ /\ createRequest \in lbs
                 /\ cr' = [cr EXCEPT ![t].dnsName = createRequest.DNSName,
                                     ![t].loadBalancerName = args.name]
                 /\ LBGoto(t, "register")
                 /\ UNCHANGED lbs
              \/ /\ LBFail(t, "CreateLBError")
                 /\ UNCHANGED <<lbs, cr>>
    /\ UNCHANGED <<elbClients, vpcs, subnets, groups, prev>>
    /\ UNCHANGED <<volVars, pureVars, provVars>>

\* a request that registers the first instance only
registerInstances_first(instances) ==
    IF Len(instances) = 0 THEN instances ELSE <<instances[1]>>

\* CreateTCPLoadBalancer, lines 1592-1598: registerRequest.Instances
registerInstances(instances) == instances

\* toStatus
toStatus(loadBalancerName, dnsName) ==
    IF dnsName # EmptyStr
    THEN [Ingress |-> <<[Hostname |-> dnsName]>>]
    ELSE [Ingress |-> <<>>]

\* CreateTCPLoadBalancer, lines 1600-1612: register; an error is logged only; the
\* log line reads registerResponse.Instances, which panics on a nil response
Create_Register(t) ==
    /\ lbpc[t] = "register"
    /\ LET name == cr[t].loadBalancerName
           request == registerInstances(cr[t].instances)
           status == toStatus(name, cr[t].dnsName)
       IN  /\ calls' = [calls EXCEPT ![t] =
                          Append(@, Call("RegisterInstancesWithLoadBalancer", <<name, request>>))]
           /\ \/ \E lb \in DescribeLoadBalancers(cr[t].args.region, name) :
                    /\ lbs' = (lbs \ {lb}) \cup
                           {[lb EXCEPT !.Instances = @ \cup SeqRange(request)]}
                    /\ lbpc' = [lbpc EXCEPT ![t] = "done"]
                    /\ lbRet' = [lbRet EXCEPT ![t] = [err |-> "", status |-> status]]
              \/ \E responseNil \in BOOLEAN :
                    /\ UNCHANGED lbs
                    /\ IF responseNil
                       THEN lbpc' = [lbpc EXCEPT ![t] = "panic"] /\ UNCHANGED lbRet
                       ELSE /\ lbpc' = [lbpc EXCEPT ![t] = "done"]
                            /\ lbRet' = [lbRet EXCEPT ![t] = [err |-> "", status |-> status]]
    /\ UNCHANGED <<elbClients, vpcs, subnets, groups, cr, prev>>
    /\ UNCHANGED <<volVars, pureVars, provVars>>

\* the caller takes the result; the call is the previous call from now on
Create_Return(t) ==
    /\ lbpc[t] = "done"
    /\ lbpc' = [lbpc EXCEPT ![t] = "idle"]
    /\ prev' = [valid |-> TRUE, op |-> cr[t].op, existed |-> cr[t].existed,
                args |-> cr[t].args, ok |-> lbRet[t].err = "",
                status |-> lbRet[t].status]
    /\ cr' = [cr EXCEPT ![t] = NoFrame]
    /\ calls' = [calls EXCEPT ![t] = <<>>]
    /\ lbRet' = [lbRet EXCEPT ![t] = NoLBRet]
    /\ UNCHANGED <<elbClients, vpcs, subnets, lbs, groups>>
    /\ UNCHANGED <<volVars, pureVars, provVars>>

\* the steps of CreateTCPLoadBalancer calls made by the callers
LBStep(callers) ==
    \/ \E t \in callers : Create_Begin(t)
    \/ \E t \in callers : Create_Resolve(t)
    \/ \E t \in callers : Create_FindVPC(t)
    \/ \E t \in callers : Create_Subnets(t)
    \/ \E t \in callers : Create_DescribeLB(t)
    \/ \E t \in callers : Create_DescribeSG(t)
    \/ \E t \in callers : Create_CreateSG(t)
    \/ \E t \in callers : ensure_Describe(t)
    \/ \E t \in callers : ensure_Authorize(t)
    \/ \E t \in callers : Create_CreateLB(t)
    \/ \E t \in callers : Create_Register(t)
    \/ \E t \in callers : Create_Return(t)

\* the steps of CreateTCPLoadBalancer calls that the callers make at the same time, one
\* call each, the results kept
RaceStep(callers) ==
    \/ \E t \in callers : Create_Begin(t)
    \/ \E t \in callers : Create_Resolve(t)
    \/ \E t \in callers : Create_FindVPC(t)
    \/ \E t \in callers : Create_Subnets(t)
    \/ \E t \in callers : Create_DescribeLB(t)
    \/ \E t \in callers : Create_DescribeSG(t)
    \/ \E t \in callers : Create_CreateSG(t)
    \/ \E t \in callers : ensure_Describe(t)
    \/ \E t \in callers : ensure_Authorize(t)
    \/ \E t \in callers : Create_CreateLB(t)
    \/ \E t \in callers : Create_Register(t)

\* a cloud with the cluster VPC and one subnet, no load balancer and no security group
InitLBBare ==
    /\ elbClients = {}
    /\ vpcs = <<ClusterVPC>>
    /\ subnets = <<[SubnetID |-> "subnet-1", AvailabilityZone |-> Region1 \o <<"a">>]>>
    /\ lbs = {} /\ groups = {}
    /\ lbpc = [t \in Threads |-> "idle"]
    /\ cr = [t \in Threads |-> NoFrame]
    /\ calls = [t \in Threads |-> <<>>]
    /\ lbRet = [t \in Threads |-> NoLBRet]
    /\ prev = NoPrev

----------------------------------------------------------------------------
(* ensureSecurityGroupIngess called on its own *)

\* the groups it is called on: none, the group of svc-a with the permissions it may
\* hold, or two groups that EC2 describes under the one id
InitLBEnsure ==
    /\ elbClients = {}
    /\ vpcs = <<ClusterVPC>> /\ subnets = <<>>
    /\ lbs = {}
    /\ groups \in
          { {} }
          \cup { {SecurityGroup(NewGroupID(SvcA), sgNameOf(SvcA), ClusterVPC, p)}
                 : p \in InitialPermissions }
          \cup { {SecurityGroup(NewGroupID(SvcA), sgNameOf(SvcA), ClusterVPC, {}),
                  SecurityGroup(NewGroupID(SvcA), sgNameOf(SvcA), "vpc-2", {})} }
    /\ lbpc = [t \in Threads |-> "idle"]
    /\ cr = [t \in Threads |-> NoFrame]
    /\ calls = [t \in Threads |-> <<>>]
    /\ lbRet = [t \in Threads |-> NoLBRet]
    /\ prev = NoPrev

\* ensureSecurityGroupIngess(securityGroupId, "0.0.0.0/0", ports) is called
Ensure_Begin(t) ==
    /\ lbpc[t] = "idle"
    /\ \E ports \in PortLists :
          cr' = [cr EXCEPT ![t] =
                    [NoFrame EXCEPT !.op = "Ensure", !.securityGroupId = NewGroupID(SvcA),
                                    !.args = [NoArgs EXCEPT !.ports = ports]]]
    /\ calls' = [calls EXCEPT ![t] = <<>>]
    /\ LBGoto(t, "ensureIngress")
    /\ UNCHANGED <<elbClients, vpcs, subnets, lbs, groups, prev>>
    /\ UNCHANGED <<volVars, pureVars, provVars>>

\* the caller takes (changed, err); the call is the previous call from now on
Ensure_End(t) ==
    /\ lbpc[t] = "done"
    /\ cr[t].op = "Ensure"
    /\ lbpc' = [lbpc EXCEPT ![t] = "idle"]
    /\ prev' = [valid |-> TRUE, op |-> cr[t].op, existed |-> FALSE, args |-> cr[t].args,
                ok |-> lbRet[t].err = "", status |-> lbRet[t].status]
    /\ cr' = [cr EXCEPT ![t] = NoFrame]
    /\ calls' = [calls EXCEPT ![t] = <<>>]
    /\ lbRet' = [lbRet EXCEPT ![t] = NoLBRet]
    /\ UNCHANGED <<elbClients, vpcs, subnets, lbs, groups>>
    /\ UNCHANGED <<volVars, pureVars, provVars>>

\* the steps of ensureSecurityGroupIngess calls made by the callers
EnsureStep(callers) ==
    \/ \E t \in callers : Ensure_Begin(t)
    \/ \E t \in callers : ensure_Describe(t)
    \/ \E t \in callers : ensure_Authorize(t)
    \/ \E t \in callers : Ensure_End(t)

----------------------------------------------------------------------------
(* UpdateTCPLoadBalancer *)

\* the clouds the lookup, update and delete operations start from: no load balancer, or
\* svc-a in us-east-1 with none, one or two instances registered; the security group of svc-a exists
InitialOpsClouds ==
    LET sgs == {SecurityGroup(NewGroupID(SvcA), sgNameOf(SvcA), ClusterVPC, {})}
    IN  { [lbs |-> {}, groups |-> sgs] }
        \cup { [lbs |-> {LoadBalancer(Region1, SvcA, ExistingDNS, r, <<>>, <<>>,
                                      <<NewGroupID(SvcA)>>)},
                groups |-> sgs] : r \in {{}, {"i-1"}, {"i-1", "i-2"}, {"i-2", "i-4"}} }

InitLBOps ==
    /\ elbClients = {}
    /\ vpcs = <<ClusterVPC>> /\ subnets = <<>>
    /\ \E c \in InitialOpsClouds : lbs = c.lbs /\ groups = c.groups
    /\ lbpc = [t \in Threads |-> "idle"]
    /\ cr = [t \in Threads |-> NoFrame]
    /\ calls = [t \in Threads |-> <<>>]
    /\ lbRet = [t \in Threads |-> NoLBRet]
    /\ prev = NoPrev

\* the call is made: the frame holds the operation and its arguments
OpBegin(t, op, args) ==
    /\ cr' = [cr EXCEPT ![t] = [NoFrame EXCEPT !.op = op, !.before = lbs, !.args = args,
                    !.existed = DescribeLoadBalancers(args.region, args.name) # {}]]
    /\ calls' = [calls EXCEPT ![t] = <<>>]

Update_Begin(t) ==
    /\ lbpc[t] = "idle"
    /\ \E name \in LBNames, region \in Regions, 
          hosts \in {<<>>, <<"node1">>, <<"node1", "node2">>, <<"node2", "node3">>} :
        OpBegin(t, "Update", [NoArgs EXCEPT !.name = name, !.region = region, !.hosts = hosts])
    /\ LBGoto(t, "updResolve")
    /\ UNCHANGED <<elbClients, vpcs, subnets, lbs, groups, prev>>
    /\ UNCHANGED <<volVars, pureVars, provVars>>

\* UpdateTCPLoadBalancer, lines 1675-1678: the hosts are resolved first
Update_Resolve(t) ==
    /\ lbpc[t] = "updResolve"
    /\ \E remoteOK \in BOOLEAN :
        IF ~remoteOK THEN LBFail(t, "InstanceError") /\ UNCHANGED cr
        ELSE IF firstHostError(cr[t].args.hosts, 1) # ""
        THEN LBFail(t, firstHostError(cr[t].args.hosts, 1)) /\ UNCHANGED cr
        ELSE /\ cr' = [cr EXCEPT ![t].instances = getInstancesByDnsNames(cr[t].args.hosts)]
             /\ LBGoto(t, "updDescribe")
    /\ UNCHANGED <<elbClients, vpcs, subnets, lbs, groups, calls, prev>>
    /\ UNCHANGED <<volVars, pureVars, provVars>>

\* UpdateTCPLoadBalancer, lines 1680-1697: the client of the region, the lookup, and
\* existingInstances, the ids the description lists
Update_Describe(t) ==
    /\ lbpc[t] = "updDescribe"
    /\ \E factoryOK \in BOOLEAN, remoteOK \in BOOLEAN :
        LET client == getELBClient(elbClients, cr[t].args.region, factoryOK)
            found == describeLoadBalancer(cr[t].args.region, cr[t].args.name)
        IN  /\ elbClients' = client.clients
            /\ IF client.err THEN LBFail(t, "ClientError") /\ UNCHANGED cr
               ELSE IF ~remoteOK THEN LBFail(t, "DescribeLBError") /\ UNCHANGED cr
               ELSE IF found = {} THEN LBFail(t, "Load balancer not found") /\ UNCHANGED cr
               ELSE \E lb \in found :
                       /\ cr' = [cr EXCEPT ![t].existingInstances = lb.Instances,
                                           ![t].loadBalancerName = lb.LoadBalancerName]
                       /\ LBGoto(t, "updRegister")
    /\ UNCHANGED <<vpcs, subnets, lbs, groups, calls, prev>>
    /\ UNCHANGED <<volVars, pureVars, provVars>>

\* UpdateTCPLoadBalancer, lines 1699-1709: every wanted instance is added
addInstances(existingInstances, wantInstances) == wantInstances

\* an update that removes nothing
removeInstances_none(existingInstances, wantInstances) == {}

\* UpdateTCPLoadBalancer, lines 1711-1719: the existing instances that are not wanted
removeInstances(existingInstances, wantInstances) == existingInstances \ wantInstances

\* UpdateTCPLoadBalancer, lines 1721-1729
Update_Register(t) ==
    /\ lbpc[t] = "updRegister"
    /\ LET name == cr[t].loadBalancerName
           request == addInstances(cr[t].existingInstances, SeqRange(cr[t].instances))
       IN  IF request = {}
           THEN LBGoto(t, "updDeregister") /\ UNCHANGED <<lbs, calls>>
           ELSE /\ calls' = [calls EXCEPT ![t] =
                          Append(@, Call("RegisterInstancesWithLoadBalancer", <<name, request>>))]
                /\ \/ \E lb \in DescribeLoadBalancers(cr[t].args.region, name) :
                         /\ lbs' = (lbs \ {lb}) \cup {[lb EXCEPT !.Instances = @ \cup request]}
                         /\ LBGoto(t, "updDeregister")
                   \/ LBFail(t, "RegisterError") /\ UNCHANGED lbs
    /\ UNCHANGED <<elbClients, vpcs, subnets, groups, cr, prev>>
    /\ UNCHANGED <<volVars, pureVars, provVars>>

\* UpdateTCPLoadBalancer, lines 1731-1741
Update_Deregister(t) ==
    /\ lbpc[t] = "updDeregister"
    /\ LET name == cr[t].loadBalancerName
           request == removeInstances(cr[t].existingInstances, SeqRange(cr[t].instances))
       IN  IF request = {}
           THEN /\ lbpc' = [lbpc EXCEPT ![t] = "done"]
                /\ lbRet' = [lbRet EXCEPT ![t] = NoLBRet]
                /\ UNCHANGED <<lbs, calls>>
           ELSE /\ calls' = [calls EXCEPT ![t] =
                          Append(@, Call("DeregisterInstancesFromLoadBalancer", <<name, request>>))]
                /\ \/ \E lb \in DescribeLoadBalancers(cr[t].args.region, name) :
                         /\ lbs' = (lbs \ {lb}) \cup {[lb EXCEPT !.Instances = @ \ request]}
                         /\ lbpc' = [lbpc EXCEPT ![t] = "done"]
                         /\ lbRet' = [lbRet EXCEPT ![t] = NoLBRet]
                   \/ LBFail(t, "DeregisterError") /\ UNCHANGED lbs
    /\ UNCHANGED <<elbClients, vpcs, subnets, groups, cr, prev>>
    /\ UNCHANGED <<volVars, pureVars, provVars>>

----------------------------------------------------------------------------
(* EnsureTCPLoadBalancerDeleted *)

Delete_Begin(t) ==
    /\ lbpc[t] = "idle"
    /\ \E name \in LBNames, region \in Regions :
        OpBegin(t, "Delete", [NoArgs EXCEPT !.name = name, !.region = region])
    /\ LBGoto(t, "delDescribe")
    /\ UNCHANGED <<elbClients, vpcs, subnets, lbs, groups, prev>>
    /\ UNCHANGED <<volVars, pureVars, provVars>>

\* EnsureTCPLoadBalancerDeleted, lines 1644-1659: the client of the region and the
\* lookup; nothing to delete is success
Delete_Describe(t) ==
    /\ lbpc[t] = "delDescribe"
    /\ \E factoryOK \in BOOLEAN, remoteOK \in BOOLEAN :
        LET client == getELBClient(elbClients, cr[t].args.region, factoryOK)
            found == describeLoadBalancer(cr[t].args.region, cr[t].args.name)
        IN  /\ elbClients' = client.clients
            /\ IF client.err THEN LBFail(t, "ClientError") /\ UNCHANGED cr
               ELSE IF ~remoteOK THEN LBFail(t, "DescribeLBError") /\ UNCHANGED cr
               ELSE IF found = {}
               THEN /\ lbpc' = [lbpc EXCEPT ![t] = "done"]
                    /\ lbRet' = [lbRet EXCEPT ![t] = NoLBRet]
                    /\ UNCHANGED cr
               ELSE \E lb \in found :
                       /\ cr' = [cr EXCEPT ![t].loadBalancerName = lb.LoadBalancerName]
                       /\ LBGoto(t, "delDelete")
    /\ UNCHANGED <<vpcs, subnets, lbs, groups, calls, prev>>
    /\ UNCHANGED <<volVars, pureVars, provVars>>

\* EnsureTCPLoadBalancerDeleted, lines 1661-1670: DeleteLoadBalancer by name
Delete_DeleteLB(t) ==
    /\ lbpc[t] = "delDelete"
    /\ LET name == cr[t].loadBalancerName
       IN  /\ calls' = [calls EXCEPT ![t] = Append(@, Call("DeleteLoadBalancer", <<name>>))]
           /\ \/ /\ lbs' = lbs \ DescribeLoadBalancers(cr[t].args.region, name)
                 /\ lbpc' = [lbpc EXCEPT ![t] = "done"]
                 /\ lbRet' = [lbRet EXCEPT ![t] = NoLBRet]
              \/ LBFail(t, "DeleteError") /\ UNCHANGED lbs
    /\ UNCHANGED <<elbClients, vpcs, subnets, groups, cr, prev>>
    /\ UNCHANGED <<volVars, pureVars, provVars>>

----------------------------------------------------------------------------
(* TCPLoadBalancerExists and GetTCPLoadBalancer *)

\* describeLoadBalancer(region, name) as the whole of a lookup call: the client of the
\* region, the description, and the answer; a LoadBalancerNotFound reply is no error
Lookup(t, region, name) ==
    /\ \E factoryOK \in BOOLEAN, remoteOK \in BOOLEAN :
        LET client == getELBClient(elbClients, region, factoryOK)
            found == describeLoadBalancer(region, name)
        IN  /\ elbClients' = client.clients
            /\ IF client.err THEN LBFail(t, "ClientError") /\ UNCHANGED cr
               ELSE IF ~remoteOK THEN LBFail(t, "DescribeLBError") /\ UNCHANGED cr
               ELSE IF found = {}
               THEN /\ lbpc' = [lbpc EXCEPT ![t] = "done"]
                    /\ lbRet' = [lbRet EXCEPT ![t] = NoLBRet]
                    /\ cr' = [cr EXCEPT ![t].found = FALSE]
               ELSE \E lb \in found :
                       /\ lbpc' = [lbpc EXCEPT ![t] = "done"]
                       /\ lbRet' = [lbRet EXCEPT ![t] =
                              [err |-> "", status |-> toStatus(lb.LoadBalancerName, lb.DNSName)]]
                       /\ cr' = [cr EXCEPT ![t].found = TRUE]
    /\ UNCHANGED <<vpcs, subnets, lbs, groups, calls, prev>>
    /\ UNCHANGED <<volVars, pureVars, provVars>>

Exists_Begin(t) ==
    /\ lbpc[t] = "idle"
    /\ \E name \in LBNames, region \in Regions :
        OpBegin(t, "Exists", [NoArgs EXCEPT !.name = name, !.region = region])
    /\ LBGoto(t, "existsDescribe")
    /\ UNCHANGED <<elbClients, vpcs, subnets, lbs, groups, prev>>
    /\ UNCHANGED <<volVars, pureVars, provVars>>

\* TCPLoadBalancerExists, lines 1327-1337: line 1328 calls describeLoadBalancer(name,
\* region), whose parameters are (region, name)
Exists_Describe(t) ==
    /\ lbpc[t] = "existsDescribe"
    /\ Lookup(t, cr[t].args.name, cr[t].args.region)

Get_Begin(t) ==
    /\ lbpc[t] = "idle"
    /\ \E name \in LBNames, region \in Regions :
        OpBegin(t, "Get", [NoArgs EXCEPT !.name = name, !.region = region])
    /\ LBGoto(t, "getDescribe")
    /\ UNCHANGED <<elbClients, vpcs, subnets, lbs, groups, prev>>
    /\ UNCHANGED <<volVars, pureVars, provVars>>

\* GetTCPLoadBalancer, lines 1616-1628: describeLoadBalancer(region, name)
Get_Describe(t) ==
    /\ lbpc[t] = "getDescribe"
    /\ Lookup(t, cr[t].args.region, cr[t].args.name)

\* the caller takes the result of a lookup, update or delete call
Op_Return(t) ==
    /\ lbpc[t] = "done"
    /\ lbpc' = [lbpc EXCEPT ![t] = "idle"]
    /\ prev' = [valid |-> TRUE, op |-> cr[t].op, existed |-> cr[t].existed,
                args |-> cr[t].args,
                ok |-> lbRet[t].err = "", status |-> lbRet[t].status]
    /\ cr' = [cr EXCEPT ![t] = NoFrame]
    /\ calls' = [calls EXCEPT ![t] = <<>>]
    /\ lbRet' = [lbRet EXCEPT ![t] = NoLBRet]
    /\ UNCHANGED <<elbClients, vpcs, subnets, lbs, groups>>
    /\ UNCHANGED <<volVars, pureVars, provVars>>

\* the steps of the lookup, update and delete calls made by the callers
OpsStep(callers) ==
    \/ \E t \in callers : Update_Begin(t)
    \/ \E t \in callers : Update_Resolve(t)
    \/ \E t \in callers : Update_Describe(t)
    \/ \E t \in callers : Update_Register(t)
    \/ \E t \in callers : Update_Deregister(t)
    \/ \E t \in callers : Delete_Begin(t)
    \/ \E t \in callers : Delete_Describe(t)
    \/ \E t \in callers : Delete_DeleteLB(t)
    \/ \E t \in callers : Exists_Begin(t)
    \/ \E t \in callers : Exists_Describe(t)
    \/ \E t \in callers : Get_Begin(t)
    \/ \E t \in callers : Get_Describe(t)
    \/ \E t \in callers : Op_Return(t)

----------------------------------------------------------------------------
(* The provider mutex: getSelfAWSInstance and getELBClient step by step *)

\* AttachDisk or DetachDisk is called for the instance the provider runs on; the disk
\* name parses (lines 1175, 1230), and getAwsInstance calls getSelfAWSInstance
Disk_Enter(t) ==
    /\ pc[t] = "idle" /\ lbpc[t] = "idle"
    /\ \E op \in {"AttachDisk", "DetachDisk"}, diskName \in {NamePrefix \o VolA} :
        /\ ~newAWSDisk(diskName).err
        /\ callArgs' = [callArgs EXCEPT ![t] =
                          [op |-> op, instanceName |-> "", diskName |-> diskName,
                           readOnly |-> FALSE]]
        /\ diskAwsID' = [diskAwsID EXCEPT ![t] = newAWSDisk(diskName).awsID]
    /\ pc' = [pc EXCEPT ![t] = "selfLock"]
    /\ UNCHANGED <<selfAWSInstance, mapped, devMap, mutex, bdmBase, volAtt, h, instAwsID,
                   mountDevice, alreadyAttached, attempt, req, ret,
                   describes, detachReq>>
    /\ UNCHANGED <<lbVars, pureVars, provVars>>

\* getSelfAWSInstance, line 1135: s.mutex.Lock()
Self_Lock(t) ==
    /\ pc[t] = "selfLock"
    /\ provMutex = <<>>
    /\ provMutex' = <<t>>
    /\ pc' = [pc EXCEPT ![t] = "selfGet"]
    /\ UNCHANGED <<selfAWSInstance, mapped, devMap, mutex, bdmBase, volAtt, h, instAwsID,
                   diskAwsID, mountDevice, alreadyAttached, attempt, req, ret,
                   callArgs, describes, detachReq>>
    /\ UNCHANGED <<lbVars, pureVars>>

\* getSelfAWSInstance, lines 1138-1149: the instance is made on the first call, from the
\* instance-id of the metadata service; the deferred Unlock of line 1136 on each return
Self_Get(t) ==
    /\ pc[t] = "selfGet"
    /\ \E remoteOK \in BOOLEAN :
        LET inst == getAwsInstance(t, "", remoteOK)
        IN  /\ selfAWSInstance' = (selfAWSInstance \/ inst.err = "")
            /\ IF inst.err # ""
               THEN /\ pc' = [pc EXCEPT ![t] = "done"]
                    /\ ret' = [ret EXCEPT ![t] = Failed(inst.err)]
                    /\ UNCHANGED <<h, instAwsID>>
               ELSE /\ h' = [h EXCEPT ![t] = inst.handle]
                    /\ instAwsID' = [instAwsID EXCEPT ![t] = inst.awsID]
                    /\ pc' = [pc EXCEPT ![t] = IF callArgs[t].op = "AttachDisk"
                                                THEN "assignLock" ELSE "detach"]
                    /\ ret' = [ret EXCEPT ![t] = NoRet]
    /\ provMutex' = <<>>
    /\ UNCHANGED <<mapped, devMap, mutex, bdmBase, volAtt, diskAwsID, mountDevice,
                   alreadyAttached, attempt, req, callArgs, describes, detachReq>>
    /\ UNCHANGED <<lbVars, pureVars>>

\* GetTCPLoadBalancer is called; describeLoadBalancer calls getELBClient first
LB_Enter(t) ==
    /\ pc[t] = "idle" /\ lbpc[t] = "idle"
    /\ \E name \in LBNames, region \in {Region1} :
        OpBegin(t, "Get", [NoArgs EXCEPT !.name = name, !.region = region])
    /\ LBGoto(t, "clientLock")
    /\ UNCHANGED <<elbClients, vpcs, subnets, lbs, groups, prev>>
    /\ UNCHANGED <<volVars, pureVars, provVars>>

\* getELBClient, line 195: s.mutex.Lock()
Client_Lock(t) ==
    /\ lbpc[t] = "clientLock"
    /\ provMutex = <<>>
    /\ provMutex' = <<t>>
    /\ LBGoto(t, "clientGet")
    /\ UNCHANGED <<elbClients, vpcs, subnets, lbs, groups, cr, calls, prev>>
    /\ UNCHANGED <<volVars, pureVars>>

\* getELBClient, lines 198-207: the client of the region, made on the first call; the
\* deferred Unlock of line 196 on each return
Client_Get(t) ==
    /\ lbpc[t] = "clientGet"
    /\ \E factoryOK \in BOOLEAN :
        LET client == getELBClient(elbClients, cr[t].args.region, factoryOK)
        IN  /\ elbClients' = client.clients
            /\ IF client.err THEN LBFail(t, "ClientError") ELSE LBGoto(t, "getDescribe")
    /\ provMutex' = <<>>
    /\ UNCHANGED <<vpcs, subnets, lbs, groups, cr, calls, prev>>
    /\ UNCHANGED <<volVars, pureVars>>

\* the steps of AttachDisk, DetachDisk and GetTCPLoadBalancer calls of the callers, the
\* locking of the provider mutex a step of its own
LocksStep(callers) ==
    \/ \E t \in callers : Disk_Enter(t)
    \/ \E t \in callers : Self_Lock(t)
    \/ \E t \in callers : Self_Get(t)
    \/ \E t \in callers : assign_Lock(t)
    \/ \E t \in callers : assign_GetInfo(t)
    \/ \E t \in callers : assign_Pick(t)
    \/ \E t \in callers : AttachDisk_AttachVolume(t)
    \/ \E t \in callers : AttachDisk_Wait(t, PollBudget)
    \/ \E t \in callers : AttachDisk_Release(t)
    \/ \E t \in callers : AttachDisk_Return(t)
    \/ \E t \in callers : DetachDisk_DetachVolume(t)
    \/ \E t \in callers : DetachDisk_Wait(t, PollBudget)
    \/ Cloud_AttachCompletes
    \/ Cloud_DetachCompletes
    \/ \E t \in callers : LB_Enter(t)
    \/ \E t \in callers : Client_Lock(t)
    \/ \E t \in callers : Client_Get(t)
    \/ \E t \in callers : Get_Describe(t)
    \/ \E t \in callers : Op_Return(t)

\* the steps with which a call takes a mutex
Acquires(t) ==
    \/ Self_Lock(t)
    \/ Client_Lock(t)
    \/ assign_Lock(t)
    \/ AttachDisk_Release(t)

\* the other steps of a call under way
Proceeds(t) ==
    \/ Self_Get(t)
    \/ assign_GetInfo(t)
    \/ assign_Pick(t)
    \/ AttachDisk_AttachVolume(t)
    \/ AttachDisk_Wait(t, PollBudget)
    \/ DetachDisk_DetachVolume(t)
    \/ DetachDisk_Wait(t, PollBudget)
    \/ Client_Get(t)
    \/ Get_Describe(t)

----------------------------------------------------------------------------
(* newAWSCloud and GetZone *)

\* isRegionValid: regions
KnownRegions ==
    { Region1,
      <<"u", "s", "-", "w", "e", "s", "t", "-", "1">>,
      <<"u", "s", "-", "w", "e", "s", "t", "-", "2">>,
      Region2,
      <<"e", "u", "-", "c", "e", "n", "t", "r", "a", "l", "-", "1">>,
      <<"a", "p", "-", "s", "o", "u", "t", "h", "e", "a", "s", "t", "-", "1">>,
      <<"a", "p", "-", "s", "o", "u", "t", "h", "e", "a", "s", "t", "-", "2">>,
      <<"a", "p", "-", "n", "o", "r", "t", "h", "e", "a", "s", "t", "-", "1">>,
      <<"s", "a", "-", "e", "a", "s", "t", "-", "1">> }

\* a check that accepts every region
isRegionValid_any(region) == TRUE

isRegionValid(region) == region \in KnownRegions

\* getAvailabilityZone: metadata is what the metadata service answers, [err, bytes]
getAvailabilityZone(metadata) ==
    IF metadata.err THEN [err |-> "MetadataError", zone |-> EmptyStr]
    ELSE IF Len(metadata.bytes) = 0 THEN [err |-> "NoZoneInMetadata", zone |-> EmptyStr]
    ELSE [err |-> "", zone |-> metadata.bytes]

\* readAWSCloudConfig: the zone of the configuration, or of the metadata service when
\* the configuration names none
readAWSCloudConfig(readOK, configZone, metadata) ==
    IF ~readOK THEN [err |-> "ConfigError", Zone |-> EmptyStr]
    ELSE IF configZone # EmptyStr THEN [err |-> "", Zone |-> configZone]
    ELSE IF getAvailabilityZone(metadata).err # ""
    THEN [err |-> getAvailabilityZone(metadata).err, Zone |-> EmptyStr]
    ELSE IF getAvailabilityZone(metadata).zone = EmptyStr
    THEN [err |-> "NoZone", Zone |-> EmptyStr]
    ELSE [err |-> "", Zone |-> getAvailabilityZone(metadata).zone]

NoCloud(e) == [err |-> e, region |-> EmptyStr, availabilityZone |-> EmptyStr]

\* newAWSCloud: the provider, or the error; selfOK is whether the instance the
\* provider runs on can be found and described, needed when no cluster tag is configured
newAWSCloud(readOK, configZone, metadata, clusterTag, selfOK) ==
    LET cfg == readAWSCloudConfig(readOK, configZone, metadata)
        zone == cfg.Zone
        regionName == SubSeq(zone, 1, Len(zone) - 1)
    IN  IF cfg.err # "" THEN NoCloud("unable to read AWS cloud provider config file")
        ELSE IF Len(zone) <= 1 THEN NoCloud("invalid AWS zone in config file")
        ELSE IF ~isRegionValid(regionName)
        THEN NoCloud("not a valid AWS zone (unknown region)")
        ELSE IF clusterTag = "" /\ ~selfOK THEN NoCloud("SelfInstanceError")
        ELSE [err |-> "", region |-> regionName, availabilityZone |-> zone]

\* GetZone on a provider
GetZone(awsCloud) ==
    IF awsCloud.availabilityZone = EmptyStr
    THEN [panic |-> TRUE, FailureDomain |-> EmptyStr, Region |-> EmptyStr]
    ELSE [panic |-> FALSE, FailureDomain |-> awsCloud.availabilityZone,
          Region |-> awsCloud.region]

\* the arguments of construction the model tries: the zone of the configuration file
\* (a known region and a letter, a bare region, none, one character, xx-yy-9z, a
\* region and two letters) and the answer of the metadata service
CloudInputs ==
    [op : {"newAWSCloud"}, readOK : BOOLEAN,
     configZone : {r \o <<c>> : r \in KnownRegions, c \in {"a", "b"}}
                  \cup KnownRegions
                  \cup {EmptyStr, <<"a">>, <<"x", "x", "-", "y", "y", "-", "9", "z">>,
                        Region1 \o <<"a", "a">>},
     metadata : {[err |-> TRUE, bytes |-> EmptyStr]}
                \cup {[err |-> FALSE, bytes |-> z] :
                         z \in {EmptyStr, <<"b">>, Region2 \o <<"b">>,
                                <<"x", "x", "-", "y", "y", "-", "9", "z">>}},
     clusterTag : {"", "k8s"}, selfOK : BOOLEAN]

\* the provider is constructed and, when that succeeds, asked for its zone
Apply_newAWSCloud ==
    /\ input.op = "newAWSCloud" /\ ~output.done
    /\ LET awsCloud == newAWSCloud(input.readOK, input.configZone, input.metadata,
                                   input.clusterTag, input.selfOK)
       IN  output' = [done |-> TRUE, awsCloud |-> awsCloud,
                      zone |-> IF awsCloud.err = "" THEN GetZone(awsCloud)
                               ELSE GetZone(NoCloud(""))]
    /\ UNCHANGED <<input, volVars, lbVars, provVars>>

----------------------------------------------------------------------------
(* Volume names made and parsed *)

\* the strings of at most n characters of the set
RECURSIVE StringsUpTo(_, _)
StringsUpTo(chars, n) ==
    IF n = 0 THEN {EmptyStr}
    ELSE StringsUpTo(chars, n - 1)
         \cup {Append(s, c) : s \in StringsUpTo(chars, n - 1), c \in chars}

MaxAZLen == 2
MaxSuffixLen == 2

\* the largest int64, with the word scaled from 64 bits to 30 so that every sum below
\* stays within the integers the checker computes with
MaxInt64 == 2^29 - 1

\* int64 addition: the sum wraps around
add64(a, b) == ((a + b + MaxInt64 + 1) % (2 * (MaxInt64 + 1))) - (MaxInt64 + 1)

\* int64 division: the quotient is truncated toward zero
quo64(a, b) == IF a >= 0 THEN a \div b ELSE -((-a) \div b)

\* CreateVolume, line 1264: (int64(volumeOptions.CapacityMB) + 1023) / 1024
volSize(CapacityMB) == quo64(add64(CapacityMB, 1023), 1024)

\* the capacities, the provider's zones, and the availability zones and volume ids of
\* the CreateVolume responses the model tries
CreateInputs ==
    [op : {"CreateVolume"},
     CapacityMB : {0, 1, 1023, 1024, 1025, 2048, MaxInt64 - 1024, MaxInt64 - 1023,
                   MaxInt64 - 1022, MaxInt64},
     availabilityZone : {Region1 \o <<"a">>, Region2 \o <<"b">>},
     az : StringsUpTo({"a", "/", "?", "#", "@"}, MaxAZLen),
     awsID : {VolPrefix \o x : x \in StringsUpTo({"b", "?", "#", "@"}, MaxSuffixLen)}
             \cup {EmptyStr, <<"b">>}]

\* the volume names the model hands to newAWSDisk, written scheme:authority path
ParseInputs ==
    [op : {"newAWSDisk"},
     scheme : {<<"a", "w", "s">>, <<"A", "W", "S">>, <<"A", "w", "s">>, <<"a", "w">>,
               <<"a", "w", "s", "s">>, <<"e", "b", "s">>},
     authority : {EmptyStr, <<"/", "/">>, <<"/", "/", "a", "z">>},
     path : {EmptyStr, <<"/">>, VolA, <<"/">> \o VolA, <<"/", "/">> \o VolA,
             <<"/">> \o VolA \o <<"/">>, <<"/">> \o VolA \o <<"/", "b">>,
             <<"/", "b">>, <<"/">> \o VolPrefix, <<"/", "b", "/">> \o VolA}]

\* CreateVolume asks EC2 for a volume of the size in the provider's zone and returns
\* the name of the volume of the response; the name is handed to newAWSDisk as
\* DeleteVolume, AttachDisk and DetachDisk do first
Apply_CreateVolume ==
    /\ input.op = "CreateVolume" /\ ~output.done
    /\ LET volumeName == volumeNameOf(input.az, input.awsID)
           request == [AvailabilityZone |-> input.availabilityZone,
                       Size |-> volSize(input.CapacityMB)]
       IN  output' = [done |-> TRUE, request |-> request, volumeName |-> volumeName,
                      disk |-> newAWSDisk(volumeName)]
    /\ UNCHANGED <<input, volVars, lbVars, provVars>>

Apply_newAWSDisk ==
    /\ input.op = "newAWSDisk" /\ ~output.done
    /\ LET name == input.scheme \o <<":">> \o input.authority \o input.path
       IN  output' = [done |-> TRUE, volumeName |-> name, disk |-> newAWSDisk(name)]
    /\ UNCHANGED <<input, volVars, lbVars, provVars>>

----------------------------------------------------------------------------
(* Node names resolved *)

\* the instances a listing may hold: of the name n in every state, and one of another name
ListedInstances ==
    { [InstanceID |-> "i-a", PrivateDNSName |-> "n", State |-> "running"],
      [InstanceID |-> "i-b", PrivateDNSName |-> "n", State |-> "pending"],
      [InstanceID |-> "i-c", PrivateDNSName |-> "n", State |-> "stopped"],
      [InstanceID |-> "i-d", PrivateDNSName |-> "n", State |-> "terminated"],
      [InstanceID |-> "i-e", PrivateDNSName |-> "n", State |-> "shutting-down"],
      [InstanceID |-> "i-f", PrivateDNSName |-> "n", State |-> "stopping"],
      [InstanceID |-> "i-g", PrivateDNSName |-> "n", State |-> "rebooting"],
      [InstanceID |-> "i-h", PrivateDNSName |-> "n", State |-> "nil"],
      [InstanceID |-> "i-m", PrivateDNSName |-> "m", State |-> "running"] }

ResolveInputs ==
    [op : {"getInstanceByDnsName"}, listed : SUBSET ListedInstances, name : {"n", "m"},
     remoteOK : BOOLEAN]

\* getInstanceByDnsName on what the EC2 facade returned, or on its error
Apply_getInstanceByDnsName ==
    /\ input.op = "getInstanceByDnsName" /\ ~output.done
    /\ output' = [done |-> TRUE,
                  instance |-> IF ~input.remoteOK THEN [err |-> "InstanceError", InstanceID |-> ""]
                               ELSE matchAmong(input.listed, input.name)]
    /\ UNCHANGED <<input, volVars, lbVars, provVars>>

----------------------------------------------------------------------------
(* The EC2 facade: instances listed *)

\* awsSdkEC2.Instances: the instances of every reservation of every page EC2's
\* DescribeInstances answers with, as they come. EC2 answers with the instances it
\* holds of the ids asked for ({} = InstanceIDs nil, all of them) and of the
\* private-dns-name filter ("" = no filter)
awsSdkEC2_Instances(held, instanceIds, privateDNSName) ==
    LET fetchedInstances ==
            {i \in held : /\ instanceIds = {} \/ i.InstanceID \in instanceIds
                          /\ privateDNSName = "" \/ i.PrivateDNSName = privateDNSName}
    IN  fetchedInstances

NoInfo(e) == [err |-> e, InstanceID |-> "", State |-> ""]

\* awsInstance.getInfo, given that the listing succeeded
getInfo(held, awsID) ==
    LET instances == awsSdkEC2_Instances(held, {awsID}, "")
    IN  IF instances = {} THEN NoInfo("NotFound")
        ELSE IF Cardinality(instances) > 1 THEN NoInfo("Ambiguous")
        ELSE LET i == CHOOSE x \in instances : TRUE
             IN  [err |-> "", InstanceID |-> i.InstanceID, State |-> i.State]

\* the listings the model asks the facade for: by id, by private DNS name, or all
InstancesInputs ==
    [op : {"Instances"}, held : SUBSET ListedInstances,
     instanceIds : {{}, {"i-a"}, {"i-d"}, {"i-b", "i-f"}},
     privateDNSName : {"", "n", "m"}, remoteOK : BOOLEAN]

\* the facade lists instances; getInfo describes the instance of the first id asked for
Apply_Instances ==
    /\ input.op = "Instances" /\ ~output.done
    /\ output' =
         IF ~input.remoteOK
         THEN [done |-> TRUE, err |-> "InstanceError", instances |-> {},
               info |-> NoInfo("InfoError")]
         ELSE [done |-> TRUE, err |-> "",
               instances |-> awsSdkEC2_Instances(input.held, input.instanceIds,
                                                 input.privateDNSName),
               info |-> IF Cardinality(input.instanceIds) = 1
                        THEN getInfo(input.held, CHOOSE x \in input.instanceIds : TRUE)
                        ELSE NoInfo("")]
    /\ UNCHANGED <<input, volVars, lbVars, provVars>>

----------------------------------------------------------------------------
(* List: getInstancesByRegex *)

HasSuffix(s, p) == Len(s) >= Len(p) /\ SubSeq(s, Len(s) - Len(p) + 1, Len(s)) = p

Quote == <<"'">>

\* getInstancesByRegex, lines 663-666: the quotes around the pattern are cut off.
\* regex[1 : len(regex)-1] panics when len(regex)-1 < 1
stripQuotes(regex) ==
    IF HasPrefix(regex, Quote) /\ HasSuffix(regex, Quote)
    THEN IF Len(regex) - 1 < 1 THEN [panic |-> TRUE, regex |-> EmptyStr]
         ELSE [panic |-> FALSE, regex |-> SubSeq(regex, 2, Len(regex) - 1)]
    ELSE [panic |-> FALSE, regex |-> regex]

\* regexp.Compile, for the patterns the model tries: letters and quotes stand for
\* themselves, and a pattern that holds "(" (never closed here) does not compile
Compile(regex) == [err |-> Contains(regex, "("), re |-> regex]

\* Regexp.MatchString for a pattern of characters that stand for themselves: the
\* pattern occurs somewhere in s
MatchString(re, s) ==
    \E i \in 0..(Len(s) - Len(re)) : SubSeq(s, i + 1, i + Len(re)) = re

\* getInstancesByRegex, lines 675-693: the instances the listing goes on to match
listable(instance) ==
    /\ isAlive(instance)
    /\ instance.State # "pending"
    /\ instance.PrivateDNSName # ""

\* getInstancesByRegex, lines 695-700: some tag is Name with a value the pattern matches
nameTagMatches(re, instance) ==
    \E k \in DOMAIN instance.Tags :
        instance.Tags[k].Key = "Name" /\ MatchString(re, instance.Tags[k].Value)

\* the private DNS names of the instances of the list that are listable and match, in
\* their order
RECURSIVE matchingNames(_, _)
matchingNames(instances, re) ==
    IF instances = <<>> THEN <<>>
    ELSE LET instance == Head(instances)
             rest == matchingNames(Tail(instances), re)
         IN  IF listable(instance) /\ nameTagMatches(re, instance)
             THEN <<instance.PrivateDNSName>> \o rest
             ELSE rest

NoList(e) == [panic |-> FALSE, err |-> e, names |-> <<>>, compiled |-> EmptyStr]

\* getInstancesByRegex on the list the facade returned
getInstancesByRegex(instances, regex) ==
    IF Len(instances) = 0 THEN NoList("NoInstances")
    ELSE LET stripped == stripQuotes(regex)
             compiled == Compile(stripped.regex)
         IN  IF stripped.panic
             THEN [panic |-> TRUE, err |-> "", names |-> <<>>, compiled |-> EmptyStr]
             ELSE IF compiled.err THEN NoList("BadPattern")
             ELSE [panic |-> FALSE, err |-> "",
                   names |-> matchingNames(instances, compiled.re),
                   compiled |-> compiled.re]

Tag(key, value) == [Key |-> key, Value |-> value]

TaggedInstance(id, dns, state, tags) ==
    [InstanceID |-> id, PrivateDNSName |-> dns, State |-> state, Tags |-> tags]

\* the instances a listing may hold, in the order EC2 lists them
TaggedInstances ==
    << TaggedInstance("i-1", "n1", "running", <<Tag("Name", <<"a">>)>>),
       TaggedInstance("i-2", "n2", "running", <<Tag("Role", <<"a">>), Tag("Name", <<"a", "b">>)>>),
       TaggedInstance("i-3", "n3", "running", <<Tag("Name", <<"b">>)>>),
       TaggedInstance("i-4", "n4", "pending", <<Tag("Name", <<"a">>)>>),
       TaggedInstance("i-5", "n5", "terminated", <<Tag("Name", <<"a">>)>>),
       TaggedInstance("i-6", "", "running", <<Tag("Name", <<"a">>)>>),
       TaggedInstance("i-7", "n7", "running", <<Tag("Role", <<"a">>)>>),
       TaggedInstance("i-8", "n8", "running", <<Tag("Name", <<"'", "a", "'">>)>>) >>

\* the instances of s at the positions in keep, in their order
RECURSIVE Pick(_, _, _)
Pick(s, keep, k) ==
    IF k > Len(s) THEN <<>>
    ELSE IF k \in keep THEN <<s[k]>> \o Pick(s, keep, k + 1)
    ELSE Pick(s, keep, k + 1)

\* the patterns the model passes to List
Patterns ==
    {EmptyStr, <<"a">>, <<"b">>, <<"a", "b">>, <<"'", "a", "'">>, <<"'", "a">>,
     <<"'", "'">>, <<"'">>, <<"(">>, <<"'", "(", "'">>}

ListInputs ==
    [op : {"List"}, keep : SUBSET DOMAIN TaggedInstances, regex : Patterns,
     remoteOK : BOOLEAN]

\* List: the facade lists all instances, getInstancesByRegex selects among them
Apply_List ==
    /\ input.op = "List" /\ ~output.done
    /\ output' =
         [done |-> TRUE,
          list |-> IF ~input.remoteOK THEN NoList("InstanceError")
                   ELSE getInstancesByRegex(Pick(TaggedInstances, input.keep, 1),
                                            input.regex)]
    /\ UNCHANGED <<input, volVars, lbVars, provVars>>

----------------------------------------------------------------------------
(* Specifications *)

InitPureQuiet == input = [op |-> ""] /\ output = [done |-> FALSE]

InitVol == InitVolCloud /\ InitLBQuiet /\ InitPureQuiet

NextVol == VolStep(InstanceNames)

\* concurrent AttachDisk calls, the instance addressed as "" or by node name
SpecVol == InitVol /\ [][NextVol]_vars

NextSelf == VolStep({""})

\* concurrent AttachDisk calls that all address the instance as "" (self)
SpecSelf == InitVol /\ [][NextSelf]_vars

\* one caller, one operation at a time
SeqCaller == {1}

\* AttachDisk and DetachDisk calls made one after the other, polling as the code does
SpecDisk == InitVol /\ [][DiskStep(SeqCaller, InstanceNames, MaxAttempts)]_vars

\* the steps of a call that is under way: each is local work or a remote call that
\* returns, so a call that can take its next step takes it
Running(t) ==
    \/ assign_Lock(t)
    \/ assign_GetInfo(t)
    \/ assign_Pick(t)
    \/ AttachDisk_AttachVolume(t)
    \/ AttachDisk_Wait(t, MaxAttempts)
    \/ AttachDisk_Release(t)
    \/ DetachDisk_DetachVolume(t)
    \/ DetachDisk_Wait(t, MaxAttempts)

\* SpecDisk where a call under way goes on; the cloud may never finish what it accepted
SpecDiskFair ==
    /\ InitVol
    /\ [][DiskStep(SeqCaller, InstanceNames, MaxAttempts)]_vars
    /\ \A t \in SeqCaller : WF_vars(Running(t))

NextLB == LBStep(SeqCaller)

InitLB == InitVolQuiet /\ InitLBCloud /\ InitPureQuiet

\* load balancer operations made one after the other
SpecLB == InitLB /\ [][NextLB]_vars

InitTwin == InitVolQuiet /\ InitLBTwin /\ InitPureQuiet

\* load balancer operations made one after the other where two groups bear the name
SpecLBTwin == InitTwin /\ [][NextLB]_vars

InitRace == InitVolQuiet /\ InitLBBare /\ InitPureQuiet

\* CreateTCPLoadBalancer calls made at the same time by the threads, one call each
SpecLBRace == InitRace /\ [][RaceStep(Threads)]_vars

InitLocks == InitVolQuiet /\ InitLBQuiet /\ InitPureQuiet

\* AttachDisk, DetachDisk and GetTCPLoadBalancer calls made at the same time; a call under
\* way takes its next step, and a call that waits for a mutex that is freed again and
\* again gets it
SpecLocks ==
    /\ InitLocks
    /\ [][LocksStep(Threads)]_vars
    /\ \A t \in Threads : WF_vars(Proceeds(t)) /\ SF_vars(Acquires(t))

InitEnsure == InitVolQuiet /\ InitLBEnsure /\ InitPureQuiet

\* ensureSecurityGroupIngess calls made one after the other
SpecEnsure == InitEnsure /\ [][EnsureStep(SeqCaller)]_vars

InitOps == InitVolQuiet /\ InitLBOps /\ InitPureQuiet

\* lookups, updates and deletes of load balancers made one after the other
SpecLBOps == InitOps /\ [][OpsStep(SeqCaller)]_vars

InitPure ==
    /\ InitVolQuiet /\ InitLBQuiet
    /\ input \in CloudInputs \cup CreateInputs \cup ParseInputs \cup ResolveInputs
                   \cup InstancesInputs \cup ListInputs
    /\ output = [done |-> FALSE]

NextPure ==
    \/ Apply_newAWSCloud
    \/ Apply_CreateVolume
    \/ Apply_newAWSDisk
    \/ Apply_getInstanceByDnsName
    \/ Apply_Instances
    \/ Apply_List

\* the functions of their arguments alone, each applied once to arguments that are given
SpecPure == InitPure /\ [][NextPure]_vars

----------------------------------------------------------------------------
(* Properties of the device assignment *)

PostPick(t) == pc[t] \in {"attach", "wait", "release"}

\* the call holds a device it reserved itself
Reserving(t) == PostPick(t) /\ ~alreadyAttached[t] /\ mountDevice[t] # EmptyStr

InCache(deviceMappings, volumeID) ==
    \E d \in DOMAIN deviceMappings : deviceMappings[d] = volumeID

\* C1: no device name is reserved for, or submitted for, two distinct volume-ids of
\* the same instance at the same time
C1_DeviceNeverShared ==
    \A t, u \in Threads :
        (t # u /\ Reserving(t) /\ Reserving(u) /\ instAwsID[t] = instAwsID[u]
              /\ mountDevice[t] = mountDevice[u])
            => diskAwsID[t] = diskAwsID[u]

\* C2: of two concurrent AttachDisk calls for the same volume on the same instance, one
\* takes the already_attached path with the other's device and submits no AttachVolume
C2_SecondSeesReservation ==
    \A t, u \in Threads :
        (t # u /\ PostPick(t) /\ PostPick(u) /\ instAwsID[t] = instAwsID[u]
              /\ diskAwsID[t] = diskAwsID[u]
              /\ mountDevice[t] # EmptyStr /\ mountDevice[u] # EmptyStr)
            => /\ mountDevice[t] = mountDevice[u]
               /\ alreadyAttached[t] \/ alreadyAttached[u]
               /\ req[t] = <<>> \/ req[u] = <<>>

PollFailures == {"AttachError", "PollError", "Timeout"}

\* the step with which thread t's failed call returns, its deferred release done
ReturnsFailed(t) == pc[t] = "release" /\ pc'[t] = "done"

\* C3 (as claimed): when an AttachDisk call returns an error after a failed AttachVolume or
\* a failed or timed-out poll, the instance's cache holds no entry for the volume
C3_NoEntryAfterFailure ==
    [][\A t \in Threads :
          ReturnsFailed(t) => ~InCache(devMap'[h[t]], diskAwsID[t])]_vars

\* C3 (amended): when such a call returns its error, the cache does not map the device
\* the call was assigned to the volume
C3_DeviceReleasedAfterFailure ==
    [][\A t \in Threads :
          ReturnsFailed(t) =>
              /\ ret'[t].err \in PollFailures
              /\ ret'[t].dev = EmptyStr
              /\ ~(/\ mountDevice[t] \in DOMAIN devMap'[h[t]]
                   /\ devMap'[h[t]][mountDevice[t]] = diskAwsID[t])]_vars

\* a call has failed after reserving a device, and the device is free again
C3_Witness ==
    \E t \in Threads :
        /\ pc[t] = "done" /\ ret[t].err \in PollFailures
        /\ ~alreadyAttached[t]
        /\ mountDevice[t] # EmptyStr
        /\ mountDevice[t] \notin DOMAIN devMap[h[t]]

\* the volumes that only an AttachDisk call can have attached
CallAttached == {v \in TestVolumes : \A c \in InitialClouds : c.att[v] = NoAttachment}

\* C4: once the self cache is populated it holds every attachment the cloud holds for
\* the instance (attaching or attached) as a result of AttachDisk calls, and every
\* reservation of a call in flight
C4_CacheCoversRemote ==
    mapped[SelfH] =>
        /\ \A v \in CallAttached :
              (volAtt[v].state \in {"attaching", "attached"} /\ volAtt[v].inst = SelfInstanceID)
                  => /\ volAtt[v].dev \in DOMAIN devMap[SelfH]
                     /\ devMap[SelfH][volAtt[v].dev] = v
        /\ \A t \in Threads :
              (Reserving(t) /\ h[t] = SelfH)
                  => /\ mountDevice[t] \in DOMAIN devMap[SelfH]
                     /\ devMap[SelfH][mountDevice[t]] = diskAwsID[t]

\* C5: a call that finds all devices taken fails with NoDeviceAvailable and submits no
\* AttachVolume: no call goes on to the remote attach without a device
C5_NoDeviceFails ==
    \A t \in Threads :
        /\ PostPick(t) => mountDevice[t] # EmptyStr
        /\ \A i \in DOMAIN req[t] : req[t][i].mountDevice # EmptyStr

\* d is the first of /dev/sdf .. /dev/sdp that the cache does not hold
IsFirstAbsent(deviceMappings, d) ==
    \E i \in DOMAIN getEBSMountDevices :
        /\ d = getEBSMountDevices[i]
        /\ d \notin DOMAIN deviceMappings
        /\ \A j \in 1..(i - 1) : getEBSMountDevices[j] \in DOMAIN deviceMappings

\* x is /dev/xvdX for the X of d = /dev/sdX
IsGuestNameOf(x, d) ==
    \E i \in DOMAIN DeviceLetters :
        /\ d = <<"/", "d", "e", "v", "/", "s", "d", DeviceLetters[i]>>
        /\ x = <<"/", "d", "e", "v", "/", "x", "v", "d", DeviceLetters[i]>>

\* C6: for a volume the cache does not hold, and a free device, the call reserves the
\* first absent device, submits AttachVolume with that device, and once the poller
\* sees attached returns its /dev/xvd name
C6_FirstFreeDevice ==
    [][\A t \in Threads :
          /\ (/\ pc[t] = "assignPick" /\ pc'[t] # pc[t]
              /\ ~InCache(devMap[h[t]], diskAwsID[t])
              /\ \E d \in DOMAIN getEBSMountDevices :
                     getEBSMountDevices[d] \notin DOMAIN devMap[h[t]])
                => /\ pc'[t] = "attach" /\ ~alreadyAttached'[t]
                   /\ IsFirstAbsent(devMap[h[t]], mountDevice'[t])
                   /\ DOMAIN devMap'[h[t]] = DOMAIN devMap[h[t]] \cup {mountDevice'[t]}
                   /\ devMap'[h[t]][mountDevice'[t]] = diskAwsID[t]
                   /\ \A d \in DOMAIN devMap[h[t]] : devMap'[h[t]][d] = devMap[h[t]][d]
          /\ (pc[t] = "attach" /\ pc'[t] # pc[t])
                => req'[t] = <<[volumeID |-> diskAwsID[t], instanceId |-> instAwsID[t],
                               mountDevice |-> mountDevice[t]]>>
          /\ (pc[t] = "wait" /\ pc'[t] = "done" /\ ~alreadyAttached[t])
                => /\ volAtt[diskAwsID[t]].state = "attached"
                   /\ ret'[t].err = ""
                   /\ IsGuestNameOf(ret'[t].dev, mountDevice[t])]_vars

\* scenario S1: nothing mapped, AttachVolume with /dev/sdf, /dev/xvdf returned
C6_Witness ==
    \E t \in Threads :
        /\ pc[t] = "done" /\ ret[t].err = "" /\ ~alreadyAttached[t]
        /\ bdmBase = EmptyMap
        /\ Len(req[t]) = 1 /\ req[t][1].mountDevice = SdDev("f")
        /\ ret[t].dev = DevXvdPrefix \o <<"f">>

\* C7: for a volume the cache already holds, the call submits no AttachVolume, leaves
\* the cache as it is when it succeeds, and returns the /dev/xvd name of the device
\* the cache holds the volume at
C7_AlreadyAttached ==
    [][\A t \in Threads :
          /\ (/\ pc[t] = "assignPick" /\ pc'[t] # pc[t]
              /\ InCache(devMap[h[t]], diskAwsID[t]))
                => /\ pc'[t] = "wait" /\ alreadyAttached'[t]
                   /\ mountDevice'[t] \in DOMAIN devMap[h[t]]
                   /\ devMap[h[t]][mountDevice'[t]] = diskAwsID[t]
                   /\ devMap' = devMap
                   /\ req'[t] = <<>>
          /\ (alreadyAttached'[t] /\ pc'[t] # "idle") => req'[t] = <<>>
          /\ (pc[t] = "wait" /\ pc'[t] = "done" /\ alreadyAttached[t])
                => /\ devMap' = devMap
                   /\ ret'[t].err = ""
                   /\ IsGuestNameOf(ret'[t].dev, mountDevice[t])]_vars

\* scenario S2: /dev/sdg -> vol-b is in the remote description; /dev/xvdg is returned
\* and no AttachVolume was submitted
C7_Witness ==
    \E t \in Threads :
        /\ pc[t] = "done" /\ ret[t].err = "" /\ alreadyAttached[t]
        /\ diskAwsID[t] = VolB /\ req[t] = <<>>
        /\ ret[t].dev = DevXvdPrefix \o <<"g">>
        /\ SdDev("g") \in DOMAIN devMap[h[t]]
        /\ devMap[h[t]][SdDev("g")] = VolB

----------------------------------------------------------------------------
(* Properties of the load balancer lifecycle *)

Creating == {"CreateLoadBalancer", "CreateSecurityGroup", "AuthorizeSecurityGroupIngress"}

\* how many calls of the operation the log holds
Issued(log, op) == Cardinality({i \in DOMAIN log : log[i].op = op})

IssuesNoCreate(t) == \A i \in DOMAIN calls[t] : calls[t][i].op \notin Creating

\* the ids of the alive instances that carry one of the host names
ResolvedHosts(hosts) ==
    {i.InstanceID : i \in {j \in Instances : /\ j.State \in {"pending", "running"}
                                             /\ j.PrivateDNSName \in SeqRange(hosts)}}

\* C8: a Create call made while a load balancer of the name exists in the region issues
\* no CreateLoadBalancer, CreateSecurityGroup or AuthorizeSecurityGroupIngress; when it
\* returns it has called Register once, with every resolved host, and its status
\* carries the existing DNS name as the single ingress hostname
C8_AdoptsExisting ==
    \A t \in Threads :
        (lbpc[t] # "idle" /\ cr[t].existed) =>
            /\ IssuesNoCreate(t)
            /\ Issued(calls[t], "RegisterInstancesWithLoadBalancer") <= 1
            /\ (lbpc[t] = "done" /\ lbRet[t].err = "") =>
                  /\ Len(calls[t]) = 1
                  /\ calls[t][1].op = "RegisterInstancesWithLoadBalancer"
                  /\ calls[t][1].arg[1] = cr[t].args.name
                  /\ Len(calls[t][1].arg[2]) = Len(cr[t].args.hosts)
                  /\ SeqRange(calls[t][1].arg[2]) = ResolvedHosts(cr[t].args.hosts)
                  /\ \E lb \in lbs :
                        /\ lb.Region = cr[t].args.region
                        /\ lb.LoadBalancerName = cr[t].args.name
                        /\ lbRet[t].status.Ingress = <<[Hostname |-> lb.DNSName]>>

\* scenario S4: svc-a exists with DNS name abc.elb; Create returns abc.elb after one
\* Register of both hosts
C8_Witness ==
    \E t \in Threads :
        /\ lbpc[t] = "done" /\ lbRet[t].err = "" /\ cr[t].existed
        /\ lbRet[t].status.Ingress = <<[Hostname |-> ExistingDNS]>>
        /\ Len(calls[t]) = 1
        /\ SeqRange(calls[t][1].arg[2]) = {"i-1", "i-2"}

\* C9: a Create call that repeats the arguments of the Create that returned without
\* error just before it issues no CreateLoadBalancer, CreateSecurityGroup or
\* AuthorizeSecurityGroupIngress and returns the same hostname, and there is exactly
\* one load balancer of the name and one security group k8s-elb-<name>
C9_CreateIdempotent ==
    \A t \in Threads :
        (lbpc[t] # "idle" /\ prev.valid /\ prev.ok /\ prev.args = cr[t].args) =>
            /\ IssuesNoCreate(t)
            /\ Cardinality({lb \in lbs : /\ lb.Region = cr[t].args.region
                                         /\ lb.LoadBalancerName = cr[t].args.name}) = 1
            /\ Cardinality({g \in groups : g.GroupName = sgNameOf(cr[t].args.name)}) = 1
            /\ (lbpc[t] = "done" /\ lbRet[t].err = "") =>
                  /\ Len(prev.status.Ingress) = 1
                  /\ lbRet[t].status = prev.status

\* the second of two Creates has returned, the first having created the security
\* group and the load balancer
C9_Witness ==
    \E t \in Threads :
        /\ lbpc[t] = "done" /\ lbRet[t].err = ""
        /\ prev.valid /\ prev.ok /\ prev.args = cr[t].args
        /\ lbRet[t].status.Ingress =
              <<[Hostname |-> NewDNSName(cr[t].args.region, cr[t].args.name)]>>
        /\ \E g \in groups : g.GroupID = NewGroupID(cr[t].args.name) /\ g.IPPermissions # {}

\* the (lower(protocol), port, source) tuples ensure-ingress is asked for
DesiredTuples(ports, sourceIp) ==
    {<<ToLower(ports[i].Protocol), ports[i].Port, sourceIp>> : i \in DOMAIN ports}

\* the group of the id admits the tuple
GroupAdmits(allGroups, id, tuple) ==
    \E g \in allGroups :
        /\ g.GroupID = id
        /\ \E permission \in g.IPPermissions :
              /\ permission.IPProtocol = tuple[1]
              /\ permission.FromPort = tuple[2]
              /\ permission.ToPort = tuple[2]
              /\ tuple[3] \in permission.IPRanges

\* C10: when ensure-ingress returns without error the group admits every desired
\* tuple, and it has issued one AuthorizeSecurityGroupIngress if some desired tuple
\* was missing from the group and none otherwise
C10_EnsureIngress ==
    [][\A t \in Threads :
          LET id == cr[t].securityGroupId
              desired == DesiredTuples(cr[t].args.ports, AnySource)
              authorizes == Issued(calls'[t], "AuthorizeSecurityGroupIngress")
              missing == {d \in desired : ~GroupAdmits(groups, id, d)}
          IN  (lbpc[t] \in {"ensureIngress", "authorize"} /\ lbpc'[t] = "createLB") =>
                  /\ \A d \in desired : GroupAdmits(groups', id, d)
                  /\ authorizes = IF missing # {} THEN 1 ELSE 0]_vars

\* ensure-ingress has returned after authorizing the missing port of a group that
\* held another rule already
C10_Witness ==
    \E t \in Threads :
        /\ lbpc[t] = "createLB"
        /\ Issued(calls[t], "AuthorizeSecurityGroupIngress") = 1
        /\ Len(cr[t].newPermissions) = 1
        /\ \E g \in groups :
              /\ g.GroupID = cr[t].securityGroupId
              /\ Cardinality(RulesOf(g.IPPermissions)) = 2

----------------------------------------------------------------------------
(* Properties of UpdateTCPLoadBalancer *)

\* the requests of the operation in the log, each the set of instance ids it names
Requests(log, op) == {log[i].arg[2] : i \in {j \in DOMAIN log : log[j].op = op}}

\* the instances the load balancer of the call had registered when the call was made
RegisteredBefore(t) ==
    UNION {lb.Instances : lb \in {b \in cr[t].before : /\ b.Region = cr[t].args.region
                                                      /\ b.LoadBalancerName = cr[t].args.name}}

\* C11: an Update call on an existing load balancer issues at most one Register, naming
\* exactly the desired instances that were not registered, and at most one Deregister,
\* naming exactly the registered instances that are not desired; when the registered
\* set equals the desired set it issues neither
C11_UpdateIssuesDifference ==
    \A t \in Threads :
        (lbpc[t] = "done" /\ cr[t].op = "Update" /\ cr[t].existed /\ lbRet[t].err = "") =>
            LET desired == ResolvedHosts(cr[t].args.hosts)
                registered == RegisteredBefore(t)
            IN  /\ Issued(calls[t], "RegisterInstancesWithLoadBalancer") <= 1
                /\ Issued(calls[t], "DeregisterInstancesFromLoadBalancer") <= 1
                /\ Requests(calls[t], "RegisterInstancesWithLoadBalancer")
                       = IF desired \ registered = {} THEN {} ELSE {desired \ registered}
                /\ Requests(calls[t], "DeregisterInstancesFromLoadBalancer")
                       = IF registered \ desired = {} THEN {} ELSE {registered \ desired}

\* a host of the list does not resolve to exactly one pending or running instance
Unresolvable(hosts) ==
    \E i \in DOMAIN hosts :
        Cardinality({j \in Instances : /\ j.State \in {"pending", "running"}
                                       /\ j.PrivateDNSName = hosts[i]}) # 1

UpdateLookupErrors == {"InstanceError", "ClientError", "DescribeLBError"}

\* C12: an Update call made while no load balancer of the name exists in the region,
\* or with a host that does not resolve to exactly one alive instance, returns an
\* error (the not-found error when the lookups themselves succeed), issues no Register
\* and no Deregister, and leaves the load balancers of the cloud as they were
C12_UpdateFailsClean ==
    \A t \in Threads :
        (cr[t].op = "Update" /\ (~cr[t].existed \/ Unresolvable(cr[t].args.hosts))) =>
            /\ calls[t] = <<>>
            /\ lbs = cr[t].before
            /\ lbpc[t] = "done" =>
                /\ lbRet[t].err # ""
                /\ (~Unresolvable(cr[t].args.hosts) /\ lbRet[t].err \notin UpdateLookupErrors)
                       => lbRet[t].err = "Load balancer not found"
                /\ (cr[t].existed /\ lbRet[t].err \notin UpdateLookupErrors)
                       => lbRet[t].err \in {"NotFound", "Ambiguous"}

C12_Witness ==
    \E t \in Threads :
        /\ lbpc[t] = "done" /\ cr[t].op = "Update"
        /\ \/ ~cr[t].existed /\ lbRet[t].err = "Load balancer not found"
                             /\ cr[t].args.hosts # <<>>
           \/ cr[t].existed /\ Unresolvable(cr[t].args.hosts) /\ lbRet[t].err = "NotFound"
                            /\ RegisteredBefore(t) # {}

----------------------------------------------------------------------------
(* Properties of EnsureTCPLoadBalancerDeleted *)

DeleteRemoteErrors == {"ClientError", "DescribeLBError", "DeleteError"}

\* the load balancer the call names is in the cloud
Present(t) == DescribeLoadBalancers(cr[t].args.region, cr[t].args.name) # {}

\* C13: a Delete call fails only when a remote call fails; it issues no
\* DeleteLoadBalancer when the load balancer is absent and exactly one, by its name,
\* when it is present, after which the load balancer is absent; a Delete that follows
\* a successful Delete of the same load balancer finds it absent and issues nothing;
\* no call other than DeleteLoadBalancer is made and the security group stays
C13_DeleteIdempotent ==
    \A t \in Threads :
        cr[t].op = "Delete" =>
            /\ \A i \in DOMAIN calls[t] : calls[t][i].op = "DeleteLoadBalancer"
            /\ \E g \in groups : g.GroupName = sgNameOf(cr[t].args.name)
            /\ groups = {SecurityGroup(NewGroupID(SvcA), sgNameOf(SvcA), ClusterVPC, {})}
            /\ lbpc[t] = "done" =>
                /\ lbRet[t].err \in DeleteRemoteErrors \cup {""}
                /\ (lbRet[t].err = "" /\ ~cr[t].existed) => calls[t] = <<>>
                /\ (lbRet[t].err = "" /\ cr[t].existed) =>
                        calls[t] = <<Call("DeleteLoadBalancer", <<cr[t].args.name>>)>>
                /\ lbRet[t].err = "" => ~Present(t)
                /\ (prev.valid /\ prev.op = "Delete" /\ prev.ok /\ prev.args = cr[t].args) =>
                        /\ ~cr[t].existed
                        /\ calls[t] = <<>>
                        /\ lbRet[t].err \notin {"ClientError", "DescribeLBError"}
                               => lbRet[t].err = ""

\* a second Delete of a load balancer that the first Delete removed has succeeded
C13_Witness ==
    \E t \in Threads :
        /\ lbpc[t] = "done" /\ cr[t].op = "Delete" /\ lbRet[t].err = ""
        /\ prev.valid /\ prev.op = "Delete" /\ prev.ok /\ prev.args = cr[t].args
        /\ prev.existed /\ ~cr[t].existed

----------------------------------------------------------------------------
(* Properties of the lookups *)

\* C14: when TCPLoadBalancerExists(name, region) or GetTCPLoadBalancer(name, region)
\* returns without error, its answer is whether a load balancer called name exists in
\* region, so the two agree; a lookup that finds none answers false without error
C14_ExistsAgreesWithGet ==
    \A t \in Threads :
        (lbpc[t] = "done" /\ cr[t].op \in {"Exists", "Get"} /\ lbRet[t].err = "") =>
            cr[t].found = cr[t].existed

----------------------------------------------------------------------------
(* Properties of construction *)

EuWest1b == Region2 \o <<"b">>
BadZone == <<"x", "x", "-", "y", "y", "-", "9", "z">>

\* the zone construction works with: that of the configuration, else of the metadata
ZoneOf(in) == IF in.configZone # EmptyStr THEN in.configZone ELSE in.metadata.bytes

AllButLast(s) == [i \in 1..(Len(s) - 1) |-> s[i]]

\* C15: a constructed provider has the zone it was given, of two characters or more,
\* and as region that zone without its last character, a known region; GetZone
\* returns the two without panicking; construction fails when the zone has one
\* character or none or its region is not known; eu-west-1b is accepted, xx-yy-9z is not
C15_RegionOfZone ==
    (input.op = "newAWSCloud" /\ output.done) =>
        LET zone == ZoneOf(input)
            awsCloud == output.awsCloud
        IN  /\ awsCloud.err = "" =>
                /\ Len(zone) > 1
                /\ awsCloud.availabilityZone = zone
                /\ awsCloud.region = AllButLast(zone)
                /\ awsCloud.region \in KnownRegions
                /\ output.zone = [panic |-> FALSE, FailureDomain |-> zone,
                                  Region |-> AllButLast(zone)]
            /\ (Len(zone) <= 1 \/ AllButLast(zone) \notin KnownRegions) => awsCloud.err # ""
            /\ zone = BadZone => awsCloud.err # ""
            /\ (zone = EuWest1b /\ input.readOK /\ ~input.metadata.err
                    /\ (input.clusterTag # "" \/ input.selfOK)) => awsCloud.err = ""

C15_Witness ==
    /\ input.op = "newAWSCloud" /\ output.done
    /\ input.configZone = EmptyStr /\ ZoneOf(input) = EuWest1b
    /\ output.awsCloud.err = "" /\ output.zone.Region = Region2

----------------------------------------------------------------------------
(* Properties of volume names *)

NoneOf(s, chars) == \A i \in DOMAIN s : s[i] \notin chars

\* the path is one slash and one segment that starts with vol-
OneVolSegment(path) ==
    /\ Len(path) > 1 /\ path[1] = "/"
    /\ NoneOf(Tail(path), {"/"})
    /\ HasPrefix(Tail(path), VolPrefix)

\* C16 as stated: for every non-empty az and every id that starts with vol- and has no
\* slash, the name aws://az/id parses to exactly (az, id); a name whose scheme is not
\* exactly aws, whose host is empty, or whose path is not one slash and one vol-
\* segment is rejected
C16_RoundTripEveryString ==
    /\ (input.op = "CreateVolume" /\ output.done /\ input.az # EmptyStr
            /\ HasPrefix(input.awsID, VolPrefix) /\ NoneOf(input.awsID, {"/"})) =>
        output.disk = [err |-> FALSE, awsID |-> input.awsID, az |-> input.az]
    /\ (input.op = "newAWSDisk" /\ output.done) =>
        (output.disk.err <=>
            \/ input.scheme # <<"a", "w", "s">>
            \/ input.authority \in {EmptyStr, <<"/", "/">>}
            \/ ~OneVolSegment(input.path))

\* the characters URL parsing gives a meaning to
AZDelimiters == {"/", "?", "#", "@"}
IDDelimiters == {"/", "?", "#"}

\* C16 amended: the round trip holds for every non-empty az without /, ?, # or @ and
\* every id that starts with vol- and has no /, ? or #, so a name CreateVolume makes
\* of such a pair is accepted by DeleteVolume, AttachDisk and DetachDisk; a name is
\* rejected exactly when its scheme is not aws in any letter case, its host is empty,
\* or its path is not one slash and one vol- segment
C16_RoundTripPlainStrings ==
    /\ (input.op = "CreateVolume" /\ output.done /\ input.az # EmptyStr
            /\ NoneOf(input.az, AZDelimiters)
            /\ HasPrefix(input.awsID, VolPrefix) /\ NoneOf(input.awsID, IDDelimiters)) =>
        /\ output.disk = [err |-> FALSE, awsID |-> input.awsID, az |-> input.az]
        /\ volumeNameOf(output.disk.az, output.disk.awsID) = output.volumeName
    /\ (input.op = "CreateVolume" /\ output.done
            /\ (input.az = EmptyStr \/ ~HasPrefix(input.awsID, VolPrefix))) =>
        output.disk.err
    /\ (input.op = "newAWSDisk" /\ output.done) =>
        /\ output.disk.err <=>
            \/ ToLower(input.scheme) # <<"a", "w", "s">>
            \/ input.authority \in {EmptyStr, <<"/", "/">>}
            \/ ~OneVolSegment(input.path)
        /\ ~output.disk.err =>
            output.disk = [err |-> FALSE, awsID |-> Tail(input.path), az |-> <<"a", "z">>]

C16_Witness ==
    /\ input.op = "CreateVolume" /\ output.done
    /\ input.az = <<"a", "a">> /\ input.awsID = VolPrefix \o <<"b", "@">>
    /\ output.disk = [err |-> FALSE, awsID |-> input.awsID, az |-> input.az]

----------------------------------------------------------------------------
(* Properties of the poller and of DetachDisk *)

\* C17: the poller of an AttachDisk or DetachDisk call describes the volume at most 60
\* times; it gives up with Timeout once 60 describes have shown another status,
\* without a 61st describe
C17_AtMostSixtyDescribes ==
    \A t \in Threads :
        /\ describes[t] <= MaxAttempts
        /\ (pc[t] \in {"wait", "detachWait"} /\ ret[t].err = "") => attempt[t] < MaxAttempts

\* what a DetachDisk call that has returned did, but for how often it polled
DetachOrder(t) ==
    /\ Len(detachReq[t]) <= 1
    /\ req[t] = <<>>
    /\ describes[t] > 0 =>
        /\ Len(detachReq[t]) = 1
        /\ ~detachReq[t][1].err /\ ~detachReq[t][1].responseNil
    /\ (pc[t] = "done" /\ detachReq[t] # <<>>) =>
        /\ detachReq[t][1].request =
               [volumeID |-> diskAwsID[t], instanceId |-> instAwsID[t]]
        /\ detachReq[t][1].err => (ret[t].err = "DetachError" /\ describes[t] = 0)
        /\ (~detachReq[t][1].err /\ detachReq[t][1].responseNil) =>
               (ret[t].err = "ProtocolError" /\ describes[t] = 0)
        /\ ret[t].err = "" => (describes[t] >= 1 /\ Attachments(diskAwsID[t]) = <<>>)

\* C18: a DetachDisk call submits one DetachVolume before it polls, polls until the
\* volume is detached (no attachments counts as detached) with at most 60 describes,
\* and fails without polling when DetachVolume returns an error or no response
C18_DetachThenPoll ==
    \A t \in Threads :
        callArgs[t].op = "DetachDisk" => (DetachOrder(t) /\ describes[t] <= MaxAttempts)

----------------------------------------------------------------------------
(* Properties of rejected AttachDisk calls *)

WellFormedNames == {NamePrefix \o v : v \in TestVolumes}

\* the call is one AttachDisk refuses before it assigns a device: a read-only attach, a
\* malformed volume name, or a node name that is not that of exactly one alive instance
RejectedEarly(args) ==
    /\ args.op = "AttachDisk"
    /\ \/ args.readOnly
       \/ args.diskName \notin WellFormedNames
       \/ /\ args.instanceName # ""
          /\ Cardinality({i \in Instances : /\ i.State \in {"pending", "running"}
                                            /\ i.PrivateDNSName = args.instanceName}) # 1

\* C19: an AttachDisk call that is read-only, names a malformed volume, or names an
\* instance that does not resolve returns an error in its first step, which leaves
\* every device cache and lock as it was; the call reserves no device and submits
\* no AttachVolume
C19_RejectedCallsTouchNothing ==
    [][\A t \in Threads :
          RejectedEarly(callArgs'[t]) =>
              /\ pc'[t] = "done" /\ ret'[t].err # "" /\ ret'[t].dev = EmptyStr
              /\ mountDevice'[t] = EmptyStr /\ ~alreadyAttached'[t]
              /\ req'[t] = <<>>
              /\ pc[t] = "idle" =>
                    (devMap' = devMap /\ mapped' = mapped /\ mutex' = mutex /\ volAtt' = volAtt)]_vars

\* a read-only attach was refused while the cache of the instance held a reservation
C19_Witness ==
    \E t \in Threads :
        /\ callArgs[t].op = "AttachDisk" /\ callArgs[t].readOnly
        /\ callArgs[t].diskName \in WellFormedNames /\ callArgs[t].instanceName = ""
        /\ pc[t] = "done" /\ ret[t].err = "ReadOnly"
        /\ mapped[SelfH] /\ devMap[SelfH] # EmptyMap

----------------------------------------------------------------------------
(* Properties of node name resolution *)

\* the listed instances of the name that are pending or running
AliveNamed(listed, name) ==
    {i \in listed : i.PrivateDNSName = name /\ i.State \in {"pending", "running"}}

\* C20: resolving a node name returns an instance only when exactly one pending or
\* running instance has that private DNS name, and then returns that instance; it
\* fails NotFound when there is none and Ambiguous when there are more; an instance
\* in any other state, or without a state, is never returned and never counted
C20_ResolvesOneAlive ==
    (input.op = "getInstanceByDnsName" /\ output.done /\ input.remoteOK) =>
        LET alive == AliveNamed(input.listed, input.name)
        IN  /\ output.instance.err = "" <=> Cardinality(alive) = 1
            /\ output.instance.err = "" => output.instance.InstanceID \in {i.InstanceID : i \in alive}
            /\ alive = {} => output.instance.err = "NotFound"
            /\ Cardinality(alive) > 1 => output.instance.err = "Ambiguous"

\* one running instance of the name among stopped, terminated and stateless ones
C20_Witness ==
    /\ input.op = "getInstanceByDnsName" /\ output.done /\ input.remoteOK /\ input.name = "n"
    /\ {i.State : i \in input.listed} =
           {"running", "stopped", "terminated", "shutting-down", "stopping", "rebooting", "nil"}
    /\ output.instance = [err |-> "", InstanceID |-> "i-a"]

----------------------------------------------------------------------------
(* Properties of the EC2 facade *)

Alive == {"pending", "running"}

\* C21: the facade's listing, by ids or by private DNS name, holds no instance whose
\* state is other than pending or running, and so the description getInfo returns is
\* that of an alive instance
C21_FacadeListsAliveOnly ==
    (input.op = "Instances" /\ output.done /\ output.err = "") =>
        /\ \A i \in output.instances : i.State \in Alive
        /\ (output.info.err = "" /\ output.info.InstanceID # "") =>
               output.info.State \in Alive

----------------------------------------------------------------------------
(* Properties of List *)

\* the instances List was given
Listed == Pick(TaggedInstances, input.keep, 1)

\* the pattern List is to compile: the argument, without its first and last
\* character when it begins and ends with a quote
Unquoted(regex) ==
    IF regex # EmptyStr /\ regex[1] = "'" /\ regex[Len(regex)] = "'"
    THEN [i \in 1..(Len(regex) - 2) |-> regex[i + 1]]
    ELSE regex

\* C22: List returns the private DNS names of exactly the running instances whose
\* Name tag matches the pattern, each once; a pattern that begins and ends with a
\* quote is compiled without its first and last character, the pattern of one quote
\* included
C22_ListRunningMatching ==
    (input.op = "List" /\ output.done /\ input.remoteOK /\ Listed # <<>>) =>
        /\ ~output.list.panic
        /\ output.list.err = "" =>
              /\ output.list.compiled = Unquoted(input.regex)
              /\ {output.list.names[k] : k \in DOMAIN output.list.names}
                   = {Listed[k].PrivateDNSName :
                        k \in {j \in DOMAIN Listed :
                                 /\ Listed[j].State = "running"
                                 /\ Listed[j].PrivateDNSName # ""
                                 /\ \E g \in DOMAIN Listed[j].Tags :
                                        /\ Listed[j].Tags[g].Key = "Name"
                                        /\ MatchString(Unquoted(input.regex),
                                                       Listed[j].Tags[g].Value)}}
              /\ \A k, j \in DOMAIN output.list.names :
                    output.list.names[k] = output.list.names[j] => k = j

----------------------------------------------------------------------------
(* Properties of CreateVolume *)

\* the least n with n * 1024 >= mb
CeilGB(mb) == CHOOSE n \in (mb \div 1024)..(mb \div 1024 + 1) :
                 n * 1024 >= mb /\ (n - 1) * 1024 < mb

\* C23: for every CapacityMB >= 0, CreateVolume asks for a volume of ceil(CapacityMB /
\* 1024) GB in the provider's own availability zone and returns aws://<az>/<volume-id>
\* of the response
C23_SizeRoundedUp ==
    (input.op = "CreateVolume" /\ output.done /\ input.CapacityMB >= 0) =>
        /\ output.request.Size = CeilGB(input.CapacityMB)
        /\ output.request.AvailabilityZone = input.availabilityZone
        /\ output.volumeName
             = <<"a", "w", "s", ":", "/", "/">> \o input.az \o <<"/">> \o input.awsID

----------------------------------------------------------------------------
(* Properties of the locks *)

\* the steps of a call that are remote calls: describe instance, AttachVolume, describe
\* volume, DetachVolume
RemoteSteps == {"assignInfo", "attach", "wait", "detach", "detachWait"}

\* C24: a call that is about to make a remote call holds no instance's device-map mutex
C24_NoRemoteCallUnderMutex ==
    \A t \in Threads :
        pc[t] \in RemoteSteps => \A x \in Handles : mutex[x] # <<t>>

----------------------------------------------------------------------------
(* Properties of the lazy caches *)

\* the instance a handle stands for
AwsIDOf(x) == IF x = SelfH THEN SelfInstanceID ELSE instAwsID[x[2]]

\* thread t's describe-instance succeeds and populates the cache of its handle
Populates(t) == pc[t] = "assignInfo" /\ ~mapped[h[t]] /\ mapped'[h[t]]

\* C25: the describe-instance that populates the device cache of an instance, self or
\* named, succeeds at most once: no call populates a cache for an instance while a
\* populated cache for that instance is there; the self handle, once made, stays, and
\* every call that addresses the instance as "" works on it
C25_PopulatedOncePerInstance ==
    [][/\ \A t \in Threads :
            Populates(t) =>
                ~\E x \in Handles \ {h[t]} : mapped[x] /\ AwsIDOf(x) = instAwsID[t]
       /\ selfAWSInstance => selfAWSInstance'
       /\ mapped[SelfH] => mapped'[SelfH]
       /\ \A t \in Threads :
            (pc'[t] \notin {"idle", "done"} /\ callArgs'[t].instanceName = "")
                => h'[t] = SelfH /\ selfAWSInstance']_vars

----------------------------------------------------------------------------
(* Properties of the load balancing clients *)

\* C26: a region gets its client once and keeps it (a client in the map is never
\* replaced or removed, and a step adds at most one), and every key of the client map
\* is a region that a load balancer operation was given as its region argument
C26_OneClientPerRegion ==
    [][/\ elbClients \subseteq elbClients'
       /\ Cardinality(elbClients' \ elbClients) <= 1
       /\ \A k \in elbClients' \ elbClients :
            \E t \in Threads : k \in {cr[t].args.region, cr'[t].args.region}]_vars

----------------------------------------------------------------------------
(* Properties of a successful AttachDisk *)

\* thread t's AttachDisk call has returned success
AttachedOK(t) == pc[t] = "done" /\ callArgs[t].op = "AttachDisk" /\ ret[t].err = ""

\* C27: when AttachDisk returns success with device D for volume V, the cloud has V
\* attached to the instance of the call, at the device whose in-guest name is D
C27_SuccessMeansAttachedHere ==
    \A t \in SeqCaller :
        AttachedOK(t) =>
            /\ diskAwsID[t] \in DOMAIN volAtt
            /\ volAtt[diskAwsID[t]].state = "attached"
            /\ volAtt[diskAwsID[t]].inst = instAwsID[t]
            /\ hostDevice(volAtt[diskAwsID[t]].dev) = ret[t].dev

----------------------------------------------------------------------------
(* Properties of the cache after DetachDisk *)

\* thread t's DetachDisk call on the self instance has returned success
DetachedOK(t) ==
    /\ pc[t] = "done" /\ callArgs[t].op = "DetachDisk" /\ ret[t].err = ""
    /\ callArgs[t].instanceName = ""

\* C28: after DetachDisk succeeds for volume V on the self instance, the cache of that
\* instance maps no device to V, so that the device is free for later assignments
C28_DetachFreesDevice ==
    \A t \in SeqCaller : DetachedOK(t) => ~InCache(devMap[SelfH], diskAwsID[t])

----------------------------------------------------------------------------
(* Properties of releaseMountDevice *)

\* the cache without its entry for the device
Without(deviceMappings, device) ==
    [d \in DOMAIN deviceMappings \ {device} |-> deviceMappings[d]]

\* C29: the release of a failing AttachDisk erases the entry of its device if and
\* only if the device is mapped to its volume; when the device is unmapped or mapped
\* to another volume the cache stays as it is, and no other cache is touched
C29_ReleaseOnlyOwnEntry ==
    [][\A t \in Threads :
          ReturnsFailed(t) =>
              LET deviceMappings == devMap[h[t]]
                  device == mountDevice[t]
              IN  /\ devMap'[h[t]] =
                        IF /\ device \in DOMAIN deviceMappings
                           /\ deviceMappings[device] = diskAwsID[t]
                        THEN Without(deviceMappings, device)
                        ELSE deviceMappings
                  /\ \A x \in Handles \ {h[t]} : devMap'[x] = devMap[x]]_vars

\* a failed call has released a device that by then was mapped to another volume, and
\* the entry is still there
C29_Witness ==
    \E t \in Threads :
        /\ pc[t] = "done" /\ ret[t].err \in PollFailures
        /\ mountDevice[t] \in DOMAIN devMap[h[t]]
        /\ devMap[h[t]][mountDevice[t]] # diskAwsID[t]
        /\ \E u \in Threads \ {t} :
              /\ Reserving(u) /\ h[u] = h[t] /\ mountDevice[u] = mountDevice[t]
              /\ pc[u] = "attach"

----------------------------------------------------------------------------
(* Properties of the order of the calls of CreateTCPLoadBalancer *)

\* the place of a mutating call in the order of a Create call
Rank(op) ==
    CASE op = "CreateSecurityGroup" -> 1
      [] op = "AuthorizeSecurityGroupIngress" -> 2
      [] op = "CreateLoadBalancer" -> 3
      [] op = "RegisterInstancesWithLoadBalancer" -> 4
      [] OTHER -> 0

\* the group of the id is there, with the name and in the VPC
GroupIs(id, name, vpc) ==
    \E g \in groups : g.GroupID = id /\ g.GroupName = name /\ g.VPCID = vpc

\* the ports that the scan of ensure-ingress does not find in the group: no permission
\* of the group is the port, the port, the protocol in lower case and the source as
\* its single range
MissingPorts(id, ports, sourceIp) ==
    {i \in DOMAIN ports :
        \A g \in groups :
            g.GroupID = id =>
                ~\E permission \in g.IPPermissions :
                    /\ permission.FromPort = ports[i].Port
                    /\ permission.ToPort = ports[i].Port
                    /\ permission.IPProtocol = ToLower(ports[i].Protocol)
                    /\ permission.IPRanges = {sourceIp}}

----------------------------------------------------------------------------
(* Properties of the security group lookup of CreateTCPLoadBalancer *)

\* the groups named k8s-elb-<name> in the VPC of the call of t
NamedGroups(t) == DescribeSecurityGroups({}, sgNameOf(cr[t].args.name), cr[t].vpc)

\* C31: the step of a Create call that looks the security group up by name fails when
\* more than one group answers, so that no AuthorizeSecurityGroupIngress,
\* CreateLoadBalancer or Register call follows; it keeps the one group that answers
\* without a CreateSecurityGroup call; and it goes on to create a group when none
\* answers, which the call does once at most.
C31_GroupLookup ==
    [][\A t \in Threads :
          /\ (cr[t].op = "Create" /\ lbpc[t] = "describeSG" /\ lbpc'[t] # "describeSG") =>
                /\ Cardinality(NamedGroups(t)) > 1 =>
                      lbpc'[t] = "done" /\ lbRet'[t].err # ""
                /\ Cardinality(NamedGroups(t)) = 1 =>
                      \/ lbpc'[t] = "done" /\ lbRet'[t].err # ""
                      \/ /\ lbpc'[t] = "ensureIngress"
                         /\ NamedGroups(t) = {g \in groups : g.GroupID = cr'[t].securityGroupId}
                /\ NamedGroups(t) = {} =>
                      \/ lbpc'[t] = "done" /\ lbRet'[t].err # ""
                      \/ lbpc'[t] = "createSG"
          /\ cr'[t].op = "Create" => Issued(calls'[t], "CreateSecurityGroup") <= 1]_vars

----------------------------------------------------------------------------
(* Properties of the registration made by CreateTCPLoadBalancer *)

\* C32: the step of a Create call that registers the instances ends the call without
\* an error and with the status of the one hostname, the DNS name of the load
\* balancer, whether the registration took effect or failed.
C32_RegisterFailureSwallowed ==
    [][\A t \in Threads :
          (cr[t].op = "Create" /\ lbpc[t] = "register" /\ lbpc'[t] # "register") =>
              /\ lbpc'[t] = "done"
              /\ lbRet'[t].err = ""
              /\ lbRet'[t].status = [Ingress |-> <<[Hostname |-> cr[t].dnsName]>>]]_vars

----------------------------------------------------------------------------
(* Properties of the preconditions of CreateTCPLoadBalancer *)

\* the alive instances of a private DNS name
AliveOf(host) ==
    {i \in Instances : i.State \in {"pending", "running"} /\ i.PrivateDNSName = host}

\* the arguments fail a precondition in the cloud as it is
FailsPrecondition(args) ==
    \/ args.affinity # "None"
    \/ args.publicIP # "nil"
    \/ \E i \in DOMAIN args.hosts : Cardinality(AliveOf(args.hosts[i])) # 1
    \/ Len(vpcs) # 1
    \/ \E i \in DOMAIN subnets : ~HasPrefix(subnets[i].AvailabilityZone, args.region)

Mutating ==
    {"CreateSecurityGroup", "AuthorizeSecurityGroupIngress", "CreateLoadBalancer",
     "RegisterInstancesWithLoadBalancer"}

\* C33: a Create call whose arguments fail a precondition never gets past the checks:
\* it issues none of the four mutating calls, leaves the load balancers and the
\* security groups as they are, and returns an error.
C33_FailedPreconditionTouchesNothing ==
    [][\A t \in Threads :
          (cr'[t].op = "Create" /\ FailsPrecondition(cr'[t].args)) =>
              /\ lbpc'[t] \in {"resolve", "findVPC", "subnets", "done"}
              /\ lbpc'[t] = "done" => lbRet'[t].err # ""
              /\ \A i \in DOMAIN calls'[t] : calls'[t][i].op \notin Mutating
              /\ lbs' = lbs /\ groups' = groups]_vars

\* a call that passed every check but the zones of the subnets has returned
C33_Witness ==
    \E t \in Threads :
        /\ cr[t].op = "Create" /\ lbpc[t] = "done"
        /\ FailsPrecondition(cr[t].args)
        /\ lbRet[t].err = "InvalidAZ"
        /\ calls[t] = <<>>

----------------------------------------------------------------------------
(* Properties of ensureSecurityGroupIngess *)

\* the groups EC2 describes under the id of the call of t
GroupsOfId(t) == {g \in groups : g.GroupID = cr[t].securityGroupId}

Authorizes(log) == Issued(log, "AuthorizeSecurityGroupIngress")

\* the call of t repeats the call made just before it, which returned without error
RepeatsEnsure(t) ==
    /\ prev.valid /\ prev.op = "Ensure" /\ prev.ok
    /\ cr[t].op = "Ensure" /\ cr[t].args = prev.args

\* C34: a call of ensure-ingress returns changed = true exactly when its authorize call
\* succeeded, the group then being changed; it returns (false, error) and leaves the
\* groups as they are when the lookup gives no group or several, or when the authorize
\* call fails; and a call that repeats the successful call before it issues no
\* authorize call and returns changed = false.
C34_EnsureReturns ==
    [][\A t \in Threads :
          cr[t].op = "Ensure" =>
              /\ (lbpc[t] # "done" /\ lbpc'[t] = "done") =>
                    /\ lbRet'[t].changed <=>
                          (Authorizes(calls'[t]) = 1 /\ lbRet'[t].err = "")
                    /\ lbRet'[t].changed <=> groups' # groups
                    /\ lbRet'[t].err # "" => ~lbRet'[t].changed /\ groups' = groups
                    /\ (lbpc[t] = "ensureIngress" /\ Cardinality(GroupsOfId(t)) # 1) =>
                          lbRet'[t].err # ""
              /\ lbpc'[t] # "done" => groups' = groups
              /\ RepeatsEnsure(t) =>
                    /\ Authorizes(calls'[t]) = 0
                    /\ lbpc'[t] = "done" => ~lbRet'[t].changed]_vars

----------------------------------------------------------------------------
(* Properties of the ports CreateTCPLoadBalancer opens *)

\* the (protocol, load balancer port) pairs of the listeners built from the ports
ListenerPorts(ports) ==
    {<<ToLower(ports[i].Protocol), ports[i].Port>> :
        i \in {j \in DOMAIN ports : ports[j].NodePort # 0}}

\* C35: the permissions a Create call asks EC2 to authorize are for the load balancer
\* ports of its listeners and no other port, and the group admits every listener
\* port from 0.0.0.0/0 when the load balancer is created; a port without a NodePort
\* gets no permission.
C35_IngressOnlyForListeners ==
    [][\A t \in Threads :
          (cr[t].op = "Create" /\ Len(calls'[t]) = Len(calls[t]) + 1) =>
              LET c == calls'[t][Len(calls'[t])]
              IN  /\ c.op = "AuthorizeSecurityGroupIngress" =>
                        \A i \in DOMAIN c.arg[2] :
                            /\ <<c.arg[2][i].IPProtocol, c.arg[2][i].FromPort>>
                                   \in ListenerPorts(cr[t].args.ports)
                            /\ c.arg[2][i].ToPort = c.arg[2][i].FromPort
                  /\ c.op = "CreateLoadBalancer" =>
                        \A l \in ListenerPorts(cr[t].args.ports) :
                            GroupAdmits(groups, cr[t].securityGroupId,
                                        <<l[1], l[2], AnySource>>)]_vars

----------------------------------------------------------------------------
(* Properties of CreateTCPLoadBalancer calls made at the same time *)

\* the calls of the operation that the Create calls for the region and name have issued
RECURSIVE IssuedBy(_, _, _, _)
IssuedBy(ts, region, name, op) ==
    IF ts = {} THEN 0
    ELSE LET t == CHOOSE x \in ts : TRUE
             own == IF cr[t].op = "Create" /\ cr[t].args.region = region
                                            /\ cr[t].args.name = name
                    THEN Issued(calls[t], op) ELSE 0
         IN  own + IssuedBy(ts \ {t}, region, name, op)

\* C36: Create calls made at the same time for one region and name, where neither the
\* load balancer nor its security group existed, issue one CreateSecurityGroup call
\* and one CreateLoadBalancer call at most between them, and those that return
\* without error return the same hostname.
C36_ConcurrentCreateOnce ==
    \A region \in Regions, name \in LBNames :
        /\ IssuedBy(Threads, region, name, "CreateSecurityGroup") <= 1
        /\ IssuedBy(Threads, region, name, "CreateLoadBalancer") <= 1
        /\ \A t, u \in Threads :
              ( /\ cr[t].op = "Create" /\ cr[u].op = "Create"
                /\ cr[t].args.region = region /\ cr[u].args.region = region
                /\ cr[t].args.name = name /\ cr[u].args.name = name
                /\ lbpc[t] = "done" /\ lbpc[u] = "done"
                /\ lbRet[t].err = "" /\ lbRet[u].err = "" )
              => lbRet[t].status = lbRet[u].status

----------------------------------------------------------------------------
(* Properties of the outcome of UpdateTCPLoadBalancer *)

\* the load balancers of the region and name of the call of t, as the cloud has them
Addressed(t) ==
    {lb \in lbs : lb.Region = cr[t].args.region /\ lb.LoadBalancerName = cr[t].args.name}

\* C37: when an Update call has returned without error, callers coming one after the
\* other, the load balancer it addressed is there and its registered instances are
\* exactly the instances the desired hosts resolve to.
C37_UpdateReachesDesired ==
    \A t \in Threads :
        (lbpc[t] = "done" /\ cr[t].op = "Update" /\ lbRet[t].err = "") =>
            /\ Addressed(t) # {}
            /\ \A lb \in Addressed(t) : lb.Instances = ResolvedHosts(cr[t].args.hosts)

\* an Update has returned without error after a Register and a Deregister, having found
\* an instance registered that was not desired and one desired that was not registered
C37_Witness ==
    \E t \in Threads :
        /\ lbpc[t] = "done" /\ cr[t].op = "Update" /\ lbRet[t].err = ""
        /\ RegisteredBefore(t) \ ResolvedHosts(cr[t].args.hosts) # {}
        /\ ResolvedHosts(cr[t].args.hosts) \ RegisteredBefore(t) # {}
        /\ Issued(calls[t], "RegisterInstancesWithLoadBalancer") = 1
        /\ Issued(calls[t], "DeregisterInstancesFromLoadBalancer") = 1

----------------------------------------------------------------------------
(* Properties of the completion of AttachDisk and DetachDisk *)

UnderWay(t) == pc[t] \notin {"idle", "done"}

HoldsNoMutex(t) == \A x \in Handles : mutex[x] # <<t>>

\* C38: every AttachDisk and DetachDisk call that is under way returns, whatever the
\* cloud does with the volume, given that the steps of the call are taken; the poller
\* describes the volume MaxAttempts + 1 times at most; and a call that has returned
\* holds no mutex.
C38_CallsComplete ==
    /\ [](\A t \in Threads : describes[t] <= MaxAttempts + 1)
    /\ [](\A t \in Threads : ~UnderWay(t) => HoldsNoMutex(t))
    /\ \A t \in Threads : UnderWay(t) ~> (pc[t] = "done" /\ HoldsNoMutex(t))

\* a call has returned the timeout of the poller, the volume never reaching the state
C38_Witness ==
    \E t \in Threads :
        /\ pc[t] = "done" /\ ret[t].err = "Timeout"
        /\ describes[t] = MaxAttempts + 1
        /\ HoldsNoMutex(t)

----------------------------------------------------------------------------
(* Properties of the locking *)

HoldsProvider(t) == provMutex = <<t>>

HoldsInstance(t) == \E x \in Handles : mutex[x] = <<t>>

\* the call of t stands before a Lock
Waiting(t) == pc[t] \in {"selfLock", "assignLock", "release"} \/ lbpc[t] = "clientLock"

====
